---------------------------- MODULE Spec2Model ----------------------------
(* FinZen: the metrics engine (calculations.py, file2.py, file3.py) and the  *)
(* cohort runner that scores every fund of mf.db and replaces the table      *)
(* fund_metrics; the writers of nav_history (fetch_data.py, file1.py); the   *)
(* report and the virtual portfolio (report.py); the retry loop of           *)
(* fetch_data.py.                                                             *)
(*                                                                            *)
(* Numbers. A float is a record [k, n, d, t]:                                 *)
(*   k = "q"    the exact rational n/d (d > 0, lowest terms);                 *)
(*   k = "nan"  NaN (pandas' missing value);                                  *)
(*   k = "tiny" a rounding residue of magnitude below 1e-8 (possibly 0.0):    *)
(*              the float standard deviation of a constant nonzero series;    *)
(*   k = "sym"  a finite value of magnitude >= 1e-8 that is not rational      *)
(*              (a square root, a fractional power); t is the term that       *)
(*              produced it, so two such values are equal when their terms    *)
(*              are.                                                          *)
(* NAVs and closes are positive integers (a NAV in tenths of a rupee).        *)
(* Dates are day numbers. The money booked by report.py is in binary64, bit *)
(* by bit, so that the rounding of a quotient is what the program stores.    *)
EXTENDS Integers, Sequences, FiniteSets, TLC

VARIABLES
    variant,            \* which runner script executes: "calculations", "file2", "file3"
    nav_history,        \* mf.db: scheme_info JOIN nav_history, one series per scheme_code
    provider,           \* what the benchmark provider answers for this run
    pc,                 \* position of the runner
    all_funds_df,       \* the parsed frame (scheme_code -> series)
    analysis_df,        \* the frame the groupby loop iterates
    benchmark_data,     \* the benchmark frame of the run
    todo,               \* scheme codes the groupby loop has still to visit
    cur,                \* the group being processed and its intermediate values
    fund_metrics,       \* the list the loop appends MetricsRecords to
    fund_metrics_table, \* mf.db: table fund_metrics
    prev_table,         \* fund_metrics as it was when the run started
    exception,          \* the exception that left the run, "none" if none
    fn_in,              \* input of a direct call of a metric function
    fn_out,             \* the function called and what it returned
    recommendation_report,     \* report.py: what generate_final_report returned first
    recommended_funds,         \* report.py: what it returned second, None or a list
    virtual_portfolio,         \* portfolio.db: table virtual_portfolio
    portfolio_tracking_report, \* report.py: what track_portfolio returned
    max_retries,        \* fetch_data.py: argument of initialize_mftool_with_retry
    delay,              \* fetch_data.py: its second argument, in seconds
    attempt,            \* the loop variable of the retry loop
    mf,                 \* the client the retry loop returned
    slept,              \* the time.sleep calls of the retry loop, in order
    errors              \* the exceptions the retry loop caught, in order

report_vars == <<recommendation_report, recommended_funds, virtual_portfolio,
                 portfolio_tracking_report>>

retry_vars == <<max_retries, delay, attempt, mf, slept, errors>>

script_vars == <<report_vars, retry_vars>>

vars == <<variant, nav_history, provider, pc, all_funds_df, analysis_df, benchmark_data, todo,
          cur, fund_metrics, fund_metrics_table, prev_table, exception,
          fn_in, fn_out, script_vars>>

cohort_vars == <<variant, nav_history, provider, pc, all_funds_df, analysis_df, benchmark_data,
                 todo, cur, fund_metrics, fund_metrics_table, prev_table,
                 exception>>

fn_vars == <<fn_in, fn_out>>

-----------------------------------------------------------------------------
(* Rational arithmetic.                                                       *)

Abs(x) == IF x < 0 THEN -x ELSE x

RECURSIVE GCD(_, _)
GCD(a, b) == IF b = 0 THEN a ELSE GCD(b, a % b)

Q(num, den) ==
    LET g == GCD(Abs(num), Abs(den))
        s == IF den < 0 THEN -1 ELSE 1
    IN  [k |-> "q", n |-> (s * num) \div g, d |-> (s * den) \div g, t |-> <<>>]

NaN == [k |-> "nan", n |-> 0, d |-> 1, t |-> <<>>]
Tiny == [k |-> "tiny", n |-> 0, d |-> 1, t |-> <<>>]
Sym(term) == [k |-> "sym", n |-> 0, d |-> 1, t |-> term]
Zero == Q(0, 1)
One == Q(1, 1)

IsNaN(x) == x.k = "nan"
IsQ(x) == x.k = "q"

QAdd(x, y) == Q(x.n * y.d + y.n * x.d, x.d * y.d)
QSub(x, y) == Q(x.n * y.d - y.n * x.d, x.d * y.d)
QMul(x, y) == Q(x.n * y.n, x.d * y.d)
QDiv(x, y) == Q(x.n * y.d, x.d * y.n)
QLt(x, y) == x.n * y.d < y.n * x.d
QLe(x, y) == x.n * y.d <= y.n * x.d
QAbs(x) == Q(Abs(x.n), x.d)

(* Float operations on "q" and "nan" values: NaN is absorbing.               *)
FAdd(x, y) == IF IsNaN(x) \/ IsNaN(y) THEN NaN ELSE QAdd(x, y)
FSub(x, y) == IF IsNaN(x) \/ IsNaN(y) THEN NaN ELSE QSub(x, y)
FMul(x, y) == IF IsNaN(x) \/ IsNaN(y) THEN NaN ELSE QMul(x, y)
FDiv(x, y) == IF IsNaN(x) \/ IsNaN(y) THEN NaN ELSE QDiv(x, y)
FAbs(x) == IF IsNaN(x) THEN NaN ELSE QAbs(x)


-----------------------------------------------------------------------------
(* Series helpers: pandas' NaN-skipping scans and reductions, evaluated by    *)
(* halving so that a series of several hundred rows is handled.              *)

FMaxSkip(a, b) == IF IsNaN(a) THEN b ELSE IF IsNaN(b) THEN a ELSE IF QLt(a, b) THEN b ELSE a
FMinSkip(a, b) == IF IsNaN(a) THEN b ELSE IF IsNaN(b) THEN a ELSE IF QLt(b, a) THEN b ELSE a

(* Series.cumprod(): NaN entries stay NaN and are skipped by the product.    *)
RECURSIVE ScanProd(_, _, _)
ScanProd(xs, lo, hi) ==
    IF lo = hi
    THEN [out |-> <<xs[lo]>>, tot |-> IF IsNaN(xs[lo]) THEN One ELSE xs[lo]]
    ELSE LET mid == (lo + hi) \div 2
             L == ScanProd(xs, lo, mid)
             R == ScanProd(xs, mid + 1, hi)
         IN  [out |-> L.out \o [i \in 1..(hi - mid) |-> FMul(L.tot, R.out[i])],
              tot |-> QMul(L.tot, R.tot)]

cumprod(xs) == IF Len(xs) = 0 THEN <<>> ELSE ScanProd(xs, 1, Len(xs)).out

(* Series.expanding(min_periods=1).max(): the maximum of the non-NaN values  *)
(* seen so far, NaN while there is none.                                     *)
RECURSIVE ScanMax(_, _, _)
ScanMax(xs, lo, hi) ==
    IF lo = hi
    THEN [out |-> <<xs[lo]>>, tot |-> xs[lo]]
    ELSE LET mid == (lo + hi) \div 2
             L == ScanMax(xs, lo, mid)
             R == ScanMax(xs, mid + 1, hi)
         IN  [out |-> L.out \o [i \in 1..(hi - mid) |-> FMaxSkip(L.tot, R.out[i])],
              tot |-> FMaxSkip(L.tot, R.tot)]

expanding_max(xs) == IF Len(xs) = 0 THEN <<>> ELSE ScanMax(xs, 1, Len(xs)).out

(* Series.min(): the least non-NaN value, NaN when every value is NaN.       *)
RECURSIVE ReduceMin(_, _, _)
ReduceMin(xs, lo, hi) ==
    IF lo = hi THEN xs[lo]
    ELSE LET mid == (lo + hi) \div 2
         IN  FMinSkip(ReduceMin(xs, lo, mid), ReduceMin(xs, mid + 1, hi))

series_min(xs) == IF Len(xs) = 0 THEN NaN ELSE ReduceMin(xs, 1, Len(xs))

(* Series.pct_change() of a column of positive numbers.                      *)
pct_change(vals) ==
    [i \in 1..Len(vals) |-> IF i = 1 THEN NaN ELSE Q(vals[i] - vals[i - 1], vals[i - 1])]

(* The return column without the clip.                                       *)
clip_none(x) == x

(* Series.clip(-0.5, 0.5): NaN stays NaN.                                    *)
clip(x) ==
    IF IsNaN(x) THEN NaN
    ELSE IF QLt(x, Q(-1, 2)) THEN Q(-1, 2)
    ELSE IF QLt(Q(1, 2), x) THEN Q(1, 2)
    ELSE x

AllEqual(xs) == \A i \in 1..Len(xs) : xs[i] = xs[1]

(* Series.std(ddof=1): NaN below two values; exactly 0.0 for a series of     *)
(* zeros; a rounding residue for any other constant series.                  *)
std(xs, zero) ==
    IF Len(xs) < 2 THEN NaN
    ELSE IF AllEqual(xs) THEN (IF xs[1] = zero THEN Zero ELSE Tiny)
    ELSE Sym(<<"std", Len(xs)>>)

-----------------------------------------------------------------------------
(* The metric functions. A frame df is [name, category, rows] (the scheme's   *)
(* descriptive columns are the same on every row), rows a sequence of        *)
(* [nav_date, nav], after calculate_daily_returns of                          *)
(* [nav_date, nav, daily_returns].                                            *)

NULL == "NULL"

EPS_INV == 100000000
YEAR_DAYS == 365
MIN_REGRESSION_POINTS == 30

(* daily_rfr = (1 + 0.07) ** (1/252) - 1 = 0.000268...; only its order        *)
(* against a return is used, and no return lies between 0.00026 and 0.00027. *)
daily_rfr == Q(27, 100000)

nav_column(rows) == [i \in 1..Len(rows) |-> rows[i].nav]
returns_column(rows) == [i \in 1..Len(rows) |-> rows[i].daily_returns]

(* x < 1e-8 on floats: False for NaN.                                         *)
LtEps(x) ==
    \/ x.k = "tiny"
    \/ x.k = "q" /\ (x.n <= 0 \/ x.d \div x.n > EPS_INV)

(* x * sqrt(252).                                                             *)
Annualize(x) == IF x.k = "sym" THEN Sym(<<"annualized", x.t>>) ELSE x

(* An exception leaving a function, as the value of the call.               *)
Raised(error) == [k |-> "raise", n |-> 0, d |-> 1, t |-> error]

(* Python's float ** raises OverflowError when the finite result exceeds the *)
(* largest double, 2 ** 1024: certainly when the base is 2 or more and the   *)
(* exponent 1 / years is 1024 or more (the growth ratios of the model are    *)
(* 1/2, 1 and 2 or more).                                                    *)
DBL_MAX_EXP == 1024
PowOverflows(start_value, end_value, years) ==
    end_value >= 2 * start_value /\ years.d >= DBL_MAX_EXP * years.n

(* (end_value / start_value) ** (1 / years), without the - 1.                *)
calculate_cagr_factor(start_value, end_value, years) ==
    IF start_value <= 0 \/ end_value <= 0 \/ years.n <= 0 THEN Zero
    ELSE IF end_value = start_value THEN One
    ELSE IF PowOverflows(start_value, end_value, years) THEN Raised("OverflowError")
    ELSE Sym(<<"factor", start_value, end_value, years.n, years.d>>)

calculate_cagr(start_value, end_value, years) ==
    IF start_value <= 0 \/ end_value <= 0 \/ years.n <= 0 THEN Zero
    ELSE IF end_value = start_value THEN Zero
    ELSE IF PowOverflows(start_value, end_value, years) THEN Raised("OverflowError")
    ELSE IF years = One THEN Q(end_value - start_value, start_value)
    ELSE Sym(<<"cagr", start_value, end_value, years.n, years.d>>)

(* dropAll: df.dropna() (calculations.py, file3.py) drops a row with a null   *)
(* in any column; otherwise dropna(subset=['daily_returns']) (file2.py).     *)
calculate_daily_returns(df, dropAll) ==
    LET pct == pct_change(nav_column(df.rows))
        withReturns == [i \in 1..Len(df.rows) |->
                          [nav_date |-> df.rows[i].nav_date, nav |-> df.rows[i].nav,
                           daily_returns |-> clip(pct[i])]]
        Kept(row) == /\ ~IsNaN(row.daily_returns)
                     /\ dropAll => (df.name # NULL /\ df.category # NULL)
    IN  [df EXCEPT !.rows = SelectSeq(withReturns, Kept)]

calculate_volatility(returns_series) ==
    IF Len(returns_series) = 0 THEN Zero
    ELSE Annualize(std(returns_series, Zero))

calculate_sharpe_ratio(returns_series) ==
    IF Len(returns_series) = 0 THEN Zero
    ELSE LET ann_vol == Annualize(std(returns_series, Zero))
         IN  IF LtEps(ann_vol) THEN Zero
             ELSE IF IsNaN(ann_vol) THEN NaN
             ELSE Sym(<<"sharpe", Len(returns_series)>>)

(* np.minimum(excess_daily, 0): the excess r - daily_rfr where it is         *)
(* negative, 0 elsewhere.                                                     *)
downside(r) == IF QLt(r, daily_rfr) THEN [neg |-> TRUE, r |-> r] ELSE [neg |-> FALSE, r |-> Zero]

calculate_sortino_ratio(returns_series) ==
    IF Len(returns_series) = 0 THEN Zero
    ELSE LET downside_returns == [i \in 1..Len(returns_series) |-> downside(returns_series[i])]
             downside_std == std(downside_returns, downside(One))
         IN  IF LtEps(downside_std) THEN Zero
             ELSE IF IsNaN(downside_std) THEN NaN
             ELSE Sym(<<"sortino", Len(returns_series)>>)

calculate_max_drawdown(nav_series) ==
    IF Len(nav_series) = 0 THEN Zero
    ELSE LET pct == pct_change(nav_series)
             cumulative_returns == cumprod([i \in 1..Len(pct) |-> FAdd(One, pct[i])])
             peak == expanding_max(cumulative_returns)
             drawdown == [i \in 1..Len(pct) |->
                            FSub(FDiv(cumulative_returns[i], peak[i]), One)]
         IN  FAbs(series_min(drawdown))

-----------------------------------------------------------------------------
(* Benchmark alignment and alpha. A benchmark frame is a sequence of          *)
(* [nav_date, Close] rows in ascending date order, <<>> when the provider     *)
(* returned nothing.                                                          *)

close_column(rows) == [i \in 1..Len(rows) |-> rows[i].Close]
date_index(rows) == {rows[i].nav_date : i \in 1..Len(rows)}

(* Position of the last row of b dated on or before d, 0 when there is none  *)
(* (b ascending).                                                             *)
RECURSIVE LastOnOrBefore(_, _, _, _)
LastOnOrBefore(b, d, lo, hi) ==
    IF lo > hi THEN lo - 1
    ELSE LET mid == (lo + hi) \div 2
         IN  IF b[mid].nav_date <= d THEN LastOnOrBefore(b, d, mid + 1, hi)
             ELSE LastOnOrBefore(b, d, lo, mid - 1)

(* benchmark_df.reindex(fund_df.index).dropna(): the reindex without a fill  *)
(* method, which keeps only the benchmark rows dated on a fund date.         *)
reindex_exact(benchmark_rows, fund_rows) ==
    LET index == date_index(fund_rows)
        In(row) == row.nav_date \in index
    IN  SelectSeq(benchmark_rows, In)

(* benchmark_df.reindex(fund_df.index, method='bfill').dropna(): the fill    *)
(* taken from the next benchmark row instead of the last one.                *)
reindex_bfill(benchmark_rows, fund_rows) ==
    LET at == [i \in 1..Len(fund_rows) |->
                 LastOnOrBefore(benchmark_rows, fund_rows[i].nav_date - 1, 1,
                                Len(benchmark_rows)) + 1]
        filled == [i \in 1..Len(fund_rows) |->
                     [nav_date |-> fund_rows[i].nav_date, pos |-> at[i]]]
        Kept(row) == row.pos <= Len(benchmark_rows)
        kept == SelectSeq(filled, Kept)
    IN  [i \in 1..Len(kept) |->
           [nav_date |-> kept[i].nav_date, Close |-> benchmark_rows[kept[i].pos].Close]]

(* benchmark_df.reindex(fund_df.index, method='ffill').dropna(), then        *)
(* ~index.duplicated(keep='first') (the fund index is sorted, so a repeated  *)
(* date follows its first occurrence directly).                              *)
reindex_ffill(benchmark_rows, fund_rows) ==
    LET at == [i \in 1..Len(fund_rows) |->
                 LastOnOrBefore(benchmark_rows, fund_rows[i].nav_date, 1, Len(benchmark_rows))]
        filled == [i \in 1..Len(fund_rows) |->
                     [nav_date |-> fund_rows[i].nav_date, pos |-> at[i], first |-> i = 1
                        \/ fund_rows[i].nav_date # fund_rows[i - 1].nav_date]]
        Kept(row) == row.pos > 0 /\ row.first
        kept == SelectSeq(filled, Kept)
    IN  [i \in 1..Len(kept) |->
           [nav_date |-> kept[i].nav_date, Close |-> benchmark_rows[kept[i].pos].Close]]

(* fund_df.loc[common_index]: the fund rows whose date is in the index.      *)
rows_at(fund_rows, index) ==
    LET In(row) == row.nav_date \in index
    IN  SelectSeq(fund_rows, In)

(* (fund_cagr - bench_cagr) * 100.                                            *)
cagr_difference(fund_cagr, bench_cagr) ==
    IF fund_cagr = bench_cagr THEN Zero
    ELSE IF IsQ(fund_cagr) /\ IsQ(bench_cagr) THEN QMul(QSub(fund_cagr, bench_cagr), Q(100, 1))
    ELSE Sym(<<"alpha", fund_cagr, bench_cagr>>)

(* file2.py, file3.py: CAGR-differential alpha on the forward-filled window. *)
calculate_alpha(fund_rows, benchmark_rows) ==
    IF Len(fund_rows) = 0 \/ Len(benchmark_rows) = 0 THEN Zero
    ELSE LET aligned_benchmark == reindex_ffill(benchmark_rows, fund_rows)
             common_index == date_index(fund_rows) \cap date_index(aligned_benchmark)
         IN  IF Cardinality(common_index) < 2 THEN Zero
             ELSE LET fund_df_common == rows_at(fund_rows, common_index)
                      benchmark_common == rows_at(aligned_benchmark, common_index)
                      first == fund_df_common[1].nav_date
                      last == fund_df_common[Len(fund_df_common)].nav_date
                      years == Q(last - first, YEAR_DAYS)
                  IN  IF QLt(years, One) THEN Zero
                      ELSE cagr_difference(
                             calculate_cagr(fund_df_common[1].nav,
                                            fund_df_common[Len(fund_df_common)].nav, years),
                             calculate_cagr(benchmark_common[1].Close,
                                            benchmark_common[Len(benchmark_common)].Close, years))

(* pct_change().dropna() of a column, as a series indexed by date.           *)
returns_by_date(rows, vals) ==
    LET pct == pct_change(vals)
        withReturns == [i \in 1..Len(rows) |-> [nav_date |-> rows[i].nav_date, r |-> pct[i]]]
        Kept(row) == ~IsNaN(row.r)
    IN  SelectSeq(withReturns, Kept)

(* The index of pd.concat([fund_returns, benchmark_returns], axis=1) without  *)
(* the dropna(): the dates on which either series has a return.              *)
concat_outer(fund_returns, benchmark_returns) ==
    date_index(fund_returns) \cup date_index(benchmark_returns)

(* The index of pd.concat([fund_returns, benchmark_returns], axis=1).dropna(): *)
(* the dates on which both series have a return.                              *)
concat_dropna(fund_returns, benchmark_returns) ==
    date_index(fund_returns) \cap date_index(benchmark_returns)

(* calculations.py: Jensen's alpha. sm.add_constant adds no 'const' column    *)
(* to a regressor that is itself constant, so model.params['const'] raises    *)
(* and the handler returns 0.0.                                               *)
calculate_alpha_jensens(fund_rows, benchmark_rows) ==
    IF Len(benchmark_rows) = 0 \/ Len(fund_rows) = 0 THEN Zero
    ELSE LET fund_returns == returns_by_date(fund_rows, nav_column(fund_rows))
             benchmark_returns == returns_by_date(benchmark_rows, close_column(benchmark_rows))
             aligned_dates == concat_dropna(fund_returns, benchmark_returns)
             InAligned(row) == row.nav_date \in aligned_dates
             aligned_benchmark == SelectSeq(benchmark_returns, InAligned)
         IN  IF Cardinality(aligned_dates) < MIN_REGRESSION_POINTS THEN Zero
             ELSE IF \A i \in 1..Len(aligned_benchmark) :
                        aligned_benchmark[i].r = aligned_benchmark[1].r
                  THEN Zero
                  ELSE Sym(<<"jensen", Cardinality(aligned_dates)>>)

-----------------------------------------------------------------------------
(* Stored series. A series is kept as its description [n, cal, last, shape]:  *)
(* n rows on the last n days of calendar cal up to day last, values following *)
(* the pattern shape; Rows expands it.                                        *)

(* Every day is a "daily" day; the "trading" days are five of every seven.   *)
TradingIndex(d) == 5 * (d \div 7) + (IF d % 7 < 4 THEN d % 7 ELSE 4)
TradingDay(t) == 7 * (t \div 5) + (t % 5)

DateOf(cal, last, n, i) ==
    IF cal = "daily" THEN last - (n - i)
    ELSE TradingDay(TradingIndex(last) - (n - i))

ValueOf(shape, i) ==
    CASE shape = "flat" -> 1000
      [] shape = "zig" -> IF i % 2 = 1 THEN 1000 ELSE 1100
      [] shape = "rise" -> 1000 + i
      [] shape = "crash" -> IF i = 1 THEN 1000 ELSE 500

(* skip: the number of leading (oldest) rows a filter has removed.            *)
Rows(p) ==
    [i \in 1..(p.n - p.skip) |->
       [nav_date |-> DateOf(p.cal, p.last, p.n, i + p.skip), nav |-> ValueOf(p.shape, i + p.skip)]]

BenchmarkRows(p) ==
    [i \in 1..(p.n - p.skip) |->
       [nav_date |-> DateOf(p.cal, p.last, p.n, i + p.skip), Close |-> ValueOf(p.shape, i + p.skip)]]

RowCount(p) == p.n - p.skip
FirstDate(p) == DateOf(p.cal, p.last, p.n, 1 + p.skip)
LastDate(p) == DateOf(p.cal, p.last, p.n, p.n)

-----------------------------------------------------------------------------
(* The cohort runner: calculations.py __main__ ("calculations"),              *)
(* file2.run_analysis_and_save_metrics with file1's loaders ("file2") and     *)
(* file3.run_analysis_and_save_metrics ("file3").                             *)

NumFunds == 3
DeviantCode == 2
HistoryRows == 700
ShortHistoryRows == 100
LatestDay == 1000
RecentDays == 20

LOOKBACK_YEARS == 2
MIN_NAV_ROWS == 365

(* int(LOOKBACK_YEARS * 365.25 * 0.9) and int(LOOKBACK_YEARS * 365.25).      *)
MIN_DAYS_REQUIRED == (LOOKBACK_YEARS * 36525 * 9) \div 1000
LOOKBACK_DAYS == (LOOKBACK_YEARS * 36525) \div 100

Variants == {"calculations", "file2", "file3"}
FundCodes == 1..NumFunds

(* A stored fund: its series, the scheme_info columns, and whether the       *)
(* nav_date text of its oldest row cannot be parsed as a date.               *)
Good ==
    [n |-> HistoryRows, skip |-> 0, cal |-> "daily", last |-> LatestDay, shape |-> "zig",
     name |-> "Fund", category |-> "Equity", bad |-> FALSE]

Deviants ==
    { [Good EXCEPT !.n = ShortHistoryRows],
      [Good EXCEPT !.n = MIN_DAYS_REQUIRED],
      [Good EXCEPT !.n = MIN_DAYS_REQUIRED - 1],
      [Good EXCEPT !.n = MIN_NAV_ROWS],
      [Good EXCEPT !.n = MIN_NAV_ROWS - 1],
      [Good EXCEPT !.category = NULL],
      [Good EXCEPT !.bad = TRUE],
      [Good EXCEPT !.shape = "flat"],
      [Good EXCEPT !.cal = "trading",
                   !.n = TradingIndex(LatestDay) - TradingIndex(LatestDay - LOOKBACK_DAYS - 1)] }

(* The databases of the model: every fund good but fund DeviantCode, or all  *)
(* funds short of history, or no NAV row at all.                              *)
Cohorts ==
    {[c \in FundCodes |-> IF c = DeviantCode THEN p ELSE Good] : p \in Deviants \cup {Good}}
    \cup {[c \in FundCodes |-> p] : p \in {[Good EXCEPT !.n = ShortHistoryRows], [Good EXCEPT !.n = 0]}}

(* The provider's answer to yf.download(ticker, start, end): nothing, every   *)
(* trading day of [start, end), or only the most recent trading days.        *)
ProviderAnswers == {"empty", "full", "recent"}

fetch_benchmark_data(answer, start_date, end_date) ==
    LET days == TradingIndex(end_date - 1) - TradingIndex(start_date - 1)
    IN  [n |-> CASE answer = "empty" -> 0
                 [] answer = "full" -> days
                 [] answer = "recent" -> IF days < RecentDays THEN days ELSE RecentDays,
         skip |-> 0, cal |-> "trading", last |-> end_date - 1, shape |-> "rise"]

(* pd.to_datetime raises on a nav_date it cannot parse, unless called with   *)
(* errors='coerce' (file1.py), which yields NaT for that row.                *)
ParseRaises(v, db) == v # "file2" /\ \E c \in DOMAIN db : db[c].bad /\ db[c].n > 0

(* The frame the loader returns; file1.py drops the NaT rows.                *)
fetch_all_fund_data(v, db) ==
    [c \in DOMAIN db |-> IF v = "file2" /\ db[c].bad /\ db[c].n > 0
                         THEN [db[c] EXCEPT !.skip = 1]
                         ELSE db[c]]

FrameEmpty(df) == \A c \in DOMAIN df : RowCount(df[c]) = 0
Groups(df) == {c \in DOMAIN df : RowCount(df[c]) > 0}
MaxDate(df) == CHOOSE d \in {LastDate(df[c]) : c \in Groups(df)} :
                   \A c \in Groups(df) : LastDate(df[c]) <= d
MinDate(df) == CHOOSE d \in {FirstDate(df[c]) : c \in Groups(df)} :
                   \A c \in Groups(df) : d <= FirstDate(df[c])

(* all_funds_df[all_funds_df['nav_date'].dt.date >= start_date_common].      *)
WindowFilter(df, start_date) ==
    [c \in DOMAIN df |->
       [df[c] EXCEPT !.skip = df[c].skip + Cardinality(
            {i \in (df[c].skip + 1)..df[c].n :
                DateOf(df[c].cal, df[c].last, df[c].n, i) < start_date})]]

(* The scheme codes of an iteration over the rows of two dates rather than   *)
(* over the groups: every code comes twice.                                  *)
RECURSIVE CodesOfRows(_)
CodesOfRows(S) ==
    IF S = {} THEN <<>>
    ELSE LET m == CHOOSE x \in S : \A y \in S : x <= y
         IN  <<m, m>> \o CodesOfRows(S \ {m})

(* The scheme codes in the order groupby visits them.                        *)
RECURSIVE SortedCodes(_)
SortedCodes(S) ==
    IF S = {} THEN <<>>
    ELSE LET m == CHOOSE x \in S : \A y \in S : x <= y
         IN  <<m>> \o SortedCodes(S \ {m})

(* The gate of file2.py and file3.py (len(group) < 365) in every runner.     *)
MinRows_all_history(v) == MIN_NAV_ROWS

(* The least number of rows a group needs: MIN_DAYS_REQUIRED in              *)
(* calculations.py, 365 in file2.py and file3.py.                            *)
MinRows(v) == IF v = "calculations" THEN MIN_DAYS_REQUIRED ELSE MIN_NAV_ROWS
DropAll(v) == v # "file2"

(* round(x, 2).                                                               *)
round2(x) ==
    CASE x.k = "nan" -> NaN
      [] x.k = "tiny" -> Zero
      [] x.k = "sym" -> Sym(<<"round2", x.t>>)
      [] x.k = "q" ->
            LET a == x.n * 100
                f == a \div x.d
                rem == a - f * x.d
                r == IF 2 * rem > x.d \/ (2 * rem = x.d /\ f % 2 = 1) THEN f + 1 ELSE f
            IN  Q(r, 100)

NoGroup == [code |-> 0, vol |-> NaN, sharpe |-> NaN, sortino |-> NaN, drawdown |-> NaN,
            alpha |-> NaN]

(* The metrics of one admitted group (group_sorted) against the benchmark.   *)
Score(v, code, group, daily_returns_df, benchmark) ==
    LET returns == returns_column(daily_returns_df.rows)
    IN  [code |-> code,
         vol |-> calculate_volatility(returns),
         sharpe |-> calculate_sharpe_ratio(returns),
         sortino |-> calculate_sortino_ratio(returns),
         drawdown |-> calculate_max_drawdown(nav_column(Rows(group))),
         alpha |-> IF v = "calculations"
                   THEN calculate_alpha_jensens(Rows(group), BenchmarkRows(benchmark))
                   ELSE calculate_alpha(Rows(group), BenchmarkRows(benchmark))]

(* The dict appended to fund_metrics.                                        *)
MetricsRecord(v, group, m) ==
    IF v = "calculations"
    THEN [scheme_code |-> m.code, name |-> group.name, category |-> group.category,
          period_years |-> LOOKBACK_YEARS,
          volatility |-> round2(m.vol), sharpe_ratio |-> round2(m.sharpe),
          sortino_ratio |-> round2(m.sortino),
          max_drawdown |-> round2(FMul(m.drawdown, Q(100, 1))),
          alpha_jensens |-> round2(m.alpha)]
    ELSE [scheme_code |-> m.code, name |-> group.name, category |-> group.category,
          volatility |-> round2(m.vol), sharpe_ratio |-> round2(m.sharpe),
          sortino_ratio |-> round2(m.sortino),
          max_drawdown |-> round2(FMul(m.drawdown, Q(100, 1))),
          alpha |-> round2(m.alpha)]

Frame(group) == [name |-> group.name, category |-> group.category, rows |-> Rows(group)]

(* What an earlier run left in fund_metrics: the record of a scheme that has *)
(* since left the database.                                                   *)
EarlierBatch(v) ==
    LET bench == fetch_benchmark_data("full", LatestDay - LOOKBACK_DAYS, LatestDay)
    IN  <<MetricsRecord(v, Good,
             Score(v, 0, Good, calculate_daily_returns(Frame(Good), DropAll(v)), bench))>>

NoTable == [exists |-> FALSE, rows |-> <<>>]
PriorTables(v) == {NoTable, [exists |-> TRUE, rows |-> EarlierBatch(v)]}

EmptyBenchmark == fetch_benchmark_data("empty", 0, 0)

(* report.py and the retry loop of fetch_data.py at rest.                     *)
NoReport == [kind |-> "none", sections |-> <<>>]

(* The second value generate_final_report returns: None, or a list.          *)
NoFunds == [none |-> TRUE, list |-> <<>>]
FundList(list) == [none |-> FALSE, list |-> list]

IdleScripts ==
    /\ recommendation_report = NoReport
    /\ recommended_funds = NoFunds
    /\ virtual_portfolio = NoTable
    /\ portfolio_tracking_report = "none"
    /\ max_retries = 0
    /\ delay = 0
    /\ attempt = 0
    /\ mf = NULL
    /\ slept = <<>>
    /\ errors = <<>>

(* No direct call: the inputs and the result of the direct-call model at rest. *)
NoArgs == [start_value |-> 0, end_value |-> 0, years |-> Zero]
NoCall == [kind |-> "none", nav |-> <<>>, fund |-> Good, benchmark |-> EmptyBenchmark,
           args |-> NoArgs]
NoResult == [op |-> "none", val |-> NaN]

InitRun ==
    /\ variant \in Variants
    /\ fund_metrics_table \in PriorTables(variant)
    /\ prev_table = fund_metrics_table
    /\ nav_history \in Cohorts
    /\ provider \in ProviderAnswers
    /\ pc = "start"
    /\ all_funds_df = nav_history
    /\ analysis_df = nav_history
    /\ benchmark_data = EmptyBenchmark
    /\ todo = <<>>
    /\ cur = NoGroup
    /\ fund_metrics = <<>>
    /\ exception = "none"

Init ==
    /\ InitRun
    /\ fn_in = NoCall
    /\ fn_out = NoResult
    /\ IdleScripts

(* all_funds_df = fetch_all_fund_data(db_conn); an empty frame ends the run. *)
FetchAllFundData ==
    /\ pc = "start"
    /\ IF ParseRaises(variant, nav_history)
       THEN /\ pc' = "aborted"
            /\ exception' = "ValueError"
            /\ UNCHANGED <<all_funds_df, analysis_df>>
       ELSE /\ all_funds_df' = fetch_all_fund_data(variant, nav_history)
            /\ analysis_df' = all_funds_df'
            /\ pc' = IF FrameEmpty(all_funds_df') THEN "done" ELSE "benchmark"
            /\ UNCHANGED exception
    /\ UNCHANGED <<variant, nav_history, provider, benchmark_data, todo, cur, fund_metrics,
                   fund_metrics_table, prev_table, fn_in, fn_out, script_vars>>

(* The evaluation window, the benchmark of the run and the frame to iterate. *)
(* calculations.py selects benchmark_data[['Close']], which raises KeyError   *)
(* on the empty frame the loader returns when the provider has nothing.       *)
FetchBenchmark ==
    /\ pc = "benchmark"
    /\ LET end_date == MaxDate(all_funds_df)
           start_date == IF variant = "calculations" THEN end_date - LOOKBACK_DAYS
                         ELSE MinDate(all_funds_df)
           fetched == fetch_benchmark_data(provider, start_date, end_date)
       IN  IF variant = "calculations" /\ RowCount(fetched) = 0
           THEN /\ pc' = "aborted"
                /\ exception' = "KeyError"
                /\ UNCHANGED <<benchmark_data, analysis_df, todo>>
           ELSE /\ benchmark_data' = fetched
                /\ analysis_df' = IF variant = "calculations"
                                  THEN WindowFilter(all_funds_df, start_date)
                                  ELSE all_funds_df
                /\ todo' = SortedCodes(Groups(analysis_df'))
                /\ pc' = "loop"
                /\ UNCHANGED exception
    /\ UNCHANGED <<variant, nav_history, provider, all_funds_df, cur, fund_metrics,
                   fund_metrics_table, prev_table, fn_in, fn_out, script_vars>>

(* The next group of the loop and the history gate.                          *)
GateGroup ==
    /\ pc = "loop"
    /\ todo # <<>>
    /\ LET scheme_code == Head(todo)
           group == analysis_df[scheme_code]
       IN  /\ todo' = Tail(todo)
           /\ IF RowCount(group) < MinRows(variant)
              THEN /\ pc' = "loop"
                   /\ cur' = NoGroup
              ELSE /\ pc' = "normalize"
                   /\ cur' = [NoGroup EXCEPT !.code = scheme_code]
    /\ UNCHANGED <<variant, nav_history, provider, all_funds_df, analysis_df, benchmark_data,
                   fund_metrics, fund_metrics_table, prev_table, exception, fn_in,
                   fn_out, script_vars>>

(* group_sorted = group.sort_values('nav_date').set_index('nav_date'): the   *)
(* rows of a stored series are in date order already, and stay as they are.  *)
NormalizeGroup ==
    /\ pc = "normalize"
    /\ pc' = "score"
    /\ UNCHANGED <<variant, nav_history, provider, all_funds_df, analysis_df, benchmark_data,
                   todo, cur, fund_metrics, fund_metrics_table, prev_table, exception, fn_in,
                   fn_out, script_vars>>

(* The daily returns of group_sorted (an empty result skips the fund) and    *)
(* the five metrics.                                                          *)
ScoreGroup ==
    /\ pc = "score"
    /\ LET group_sorted == analysis_df[cur.code]
           daily_returns_df == calculate_daily_returns(Frame(group_sorted), DropAll(variant))
       IN  IF Len(daily_returns_df.rows) = 0
           THEN /\ pc' = "loop"
                /\ cur' = NoGroup
           ELSE /\ pc' = "append"
                /\ cur' = Score(variant, cur.code, group_sorted, daily_returns_df,
                                benchmark_data)
    /\ UNCHANGED <<variant, nav_history, provider, all_funds_df, analysis_df, benchmark_data,
                   todo, fund_metrics, fund_metrics_table, prev_table, exception, fn_in,
                   fn_out, script_vars>>

AppendRecord ==
    /\ pc = "append"
    /\ fund_metrics' = Append(fund_metrics, MetricsRecord(variant, analysis_df[cur.code], cur))
    /\ cur' = NoGroup
    /\ pc' = "loop"
    /\ UNCHANGED <<variant, nav_history, provider, all_funds_df, analysis_df, benchmark_data,
                   todo, fund_metrics_table, prev_table, exception, fn_in, fn_out, script_vars>>

(* metrics_df = pd.DataFrame(fund_metrics); it is written only if not empty. *)
BuildFrame ==
    /\ pc = "loop"
    /\ todo = <<>>
    /\ pc' = IF fund_metrics = <<>> THEN "done" ELSE "to_sql"
    /\ UNCHANGED <<variant, nav_history, provider, all_funds_df, analysis_df, benchmark_data,
                   todo, cur, fund_metrics, fund_metrics_table, prev_table, exception,
                   fn_in, fn_out, script_vars>>

(* metrics_df.to_sql('fund_metrics', db_conn, if_exists='replace'): pandas    *)
(* drops the existing table, creates the new one and inserts the rows, the   *)
(* DROP and the CREATE taking effect at once and the INSERTs in one           *)
(* transaction.                                                               *)
ToSqlDrop ==
    /\ pc = "to_sql"
    /\ fund_metrics_table' = NoTable
    /\ pc' = "create"
    /\ UNCHANGED <<variant, nav_history, provider, all_funds_df, analysis_df, benchmark_data,
                   todo, cur, fund_metrics, prev_table, exception, fn_in, fn_out, script_vars>>

ToSqlCreate ==
    /\ pc = "create"
    /\ fund_metrics_table' = [exists |-> TRUE, rows |-> <<>>]
    /\ pc' = "insert"
    /\ UNCHANGED <<variant, nav_history, provider, all_funds_df, analysis_df, benchmark_data,
                   todo, cur, fund_metrics, prev_table, exception, fn_in, fn_out, script_vars>>

ToSqlInsert ==
    /\ pc = "insert"
    /\ fund_metrics_table' = [exists |-> TRUE, rows |-> fund_metrics]
    /\ pc' = "done"
    /\ UNCHANGED <<variant, nav_history, provider, all_funds_df, analysis_df, benchmark_data,
                   todo, cur, fund_metrics, prev_table, exception, fn_in, fn_out, script_vars>>

(* A statement of to_sql fails (database locked, disk full): the exception   *)
(* leaves the run and an open INSERT transaction is rolled back.             *)
ToSqlFail ==
    /\ pc \in {"to_sql", "create", "insert"}
    /\ pc' = "aborted"
    /\ exception' = "DatabaseError"
    /\ UNCHANGED <<variant, nav_history, provider, all_funds_df, analysis_df, benchmark_data,
                   todo, cur, fund_metrics, fund_metrics_table, prev_table, fn_in,
                   fn_out, script_vars>>

Next ==
    \/ FetchAllFundData
    \/ FetchBenchmark
    \/ GateGroup
    \/ NormalizeGroup
    \/ ScoreGroup
    \/ AppendRecord
    \/ BuildFrame
    \/ ToSqlDrop
    \/ ToSqlCreate
    \/ ToSqlInsert
    \/ ToSqlFail

Spec == Init /\ [][Next]_vars

-----------------------------------------------------------------------------
(* Direct calls of the metric functions: the input is a NAV series of at     *)
(* most MaxLen points, or a fund series and a benchmark series for alpha.    *)

MaxLen == 4
NavValues == {500, 1000, 1100, 1210, 1331}

RECURSIVE SeqsUpTo(_, _)
SeqsUpTo(S, n) ==
    IF n = 0 THEN {<<>>}
    ELSE LET shorter == SeqsUpTo(S, n - 1)
         IN  shorter \cup {Append(q, x) : q \in {r \in shorter : Len(r) = n - 1}, x \in S}

NavSeqs == SeqsUpTo(NavValues, MaxLen)

AlphaFunds ==
    {[Good EXCEPT !.n = k, !.cal = c, !.shape = sh] :
        k \in {0, 1, 2, YEAR_DAYS, YEAR_DAYS + 1, HistoryRows},
        c \in {"daily", "trading"}, sh \in {"zig", "crash"}}

AlphaBenchmarks ==
    {[n |-> k, skip |-> 0, cal |-> "trading", last |-> l, shape |-> sh] :
        k \in {0, RecentDays, MIN_REGRESSION_POINTS, MIN_REGRESSION_POINTS + 1, HistoryRows},
        l \in {LatestDay - 1, LatestDay - YEAR_DAYS}, sh \in {"rise", "flat"}}

(* The frame of a bare NAV series: dated 1, 2, ... with its descriptive      *)
(* columns filled.                                                            *)
NavFrame(navs) ==
    [name |-> "Fund", category |-> "Equity",
     rows |-> [i \in 1..Len(navs) |-> [nav_date |-> i, nav |-> navs[i]]]]

ReturnsOf(navs) == returns_column(calculate_daily_returns(NavFrame(navs), FALSE).rows)

IdleRun ==
    /\ variant = "file2"
    /\ fund_metrics_table = NoTable
    /\ prev_table = NoTable
    /\ nav_history = [c \in FundCodes |-> Good]
    /\ provider = "empty"
    /\ pc = "off"
    /\ all_funds_df = nav_history
    /\ analysis_df = nav_history
    /\ benchmark_data = EmptyBenchmark
    /\ todo = <<>>
    /\ cur = NoGroup
    /\ fund_metrics = <<>>
    /\ exception = "none"

(* The arguments of calculate_cagr: values that are negative, zero and      *)
(* positive, and spans from negative to two years, 1/1024 year among them.   *)
CagrValues == {-1000, 0, 500, 1000, 2000}
CagrYears == {Q(-1, 1), Zero, Q(1, DBL_MAX_EXP), Q(1, 2), One, Q(2, 1)}

(* The frame the runner passes to calculate_daily_returns: the NAV rows with *)
(* the scheme's descriptive columns.                                         *)
FrameOf(call) ==
    [name |-> call.fund.name, category |-> call.fund.category, rows |-> NavFrame(call.nav).rows]

Categories == {"Equity", NULL}

InitFn ==
    /\ IdleRun
    /\ fn_out = NoResult
    /\ IdleScripts
    /\ \/ \E navs \in NavSeqs : fn_in = [NoCall EXCEPT !.kind = "nav", !.nav = navs]
       \/ \E s \in CagrValues, e \in CagrValues, y \in CagrYears :
             fn_in = [NoCall EXCEPT !.kind = "cagr",
                                    !.args = [start_value |-> s, end_value |-> e, years |-> y]]
       \/ \E navs \in NavSeqs, cat \in Categories :
             fn_in = [NoCall EXCEPT !.kind = "frame", !.nav = navs,
                                    !.fund = [Good EXCEPT !.category = cat]]
       \/ \E f \in AlphaFunds, b \in AlphaBenchmarks :
             fn_in = [NoCall EXCEPT !.kind = "alpha", !.fund = f, !.benchmark = b]

Call(kind, op, val) ==
    /\ fn_in.kind = kind
    /\ fn_out.op = "none"
    /\ fn_out' = [op |-> op, val |-> val]
    /\ UNCHANGED <<fn_in, cohort_vars, script_vars>>

Call_daily_returns == Call("nav", "daily_returns", ReturnsOf(fn_in.nav))
Call_volatility == Call("nav", "volatility", calculate_volatility(ReturnsOf(fn_in.nav)))
Call_sharpe_ratio == Call("nav", "sharpe_ratio", calculate_sharpe_ratio(ReturnsOf(fn_in.nav)))
Call_sortino_ratio == Call("nav", "sortino_ratio", calculate_sortino_ratio(ReturnsOf(fn_in.nav)))
Call_max_drawdown == Call("nav", "max_drawdown", calculate_max_drawdown(fn_in.nav))
Call_alpha ==
    Call("alpha", "alpha", calculate_alpha(Rows(fn_in.fund), BenchmarkRows(fn_in.benchmark)))
Call_alpha_jensens ==
    Call("alpha", "alpha_jensens",
         calculate_alpha_jensens(Rows(fn_in.fund), BenchmarkRows(fn_in.benchmark)))

(* calculate_daily_returns of calculations.py and file3.py (df.dropna()) and *)
(* of file2.py (dropna(subset=['daily_returns'])) on a whole frame.          *)
Call_daily_returns_dropna ==
    Call("frame", "daily_returns_dropna", calculate_daily_returns(FrameOf(fn_in), TRUE).rows)
Call_daily_returns_subset ==
    Call("frame", "daily_returns_subset", calculate_daily_returns(FrameOf(fn_in), FALSE).rows)

(* The alignment step of calculate_alpha (file2.py, file3.py) on its own.    *)
Call_reindex_ffill ==
    Call("alpha", "aligned_benchmark",
         reindex_ffill(BenchmarkRows(fn_in.benchmark), Rows(fn_in.fund)))

Call_cagr ==
    Call("cagr", "cagr",
         calculate_cagr(fn_in.args.start_value, fn_in.args.end_value, fn_in.args.years))

NextFn ==
    \/ Call_daily_returns
    \/ Call_volatility
    \/ Call_sharpe_ratio
    \/ Call_sortino_ratio
    \/ Call_max_drawdown
    \/ Call_alpha
    \/ Call_alpha_jensens
    \/ Call_daily_returns_dropna
    \/ Call_daily_returns_subset
    \/ Call_cagr
    \/ Call_reindex_ffill

SpecFn == InitFn /\ [][NextFn]_vars

-----------------------------------------------------------------------------
(* The writers of mf.db (SpecStore): fetch_data.py, which drops and refills   *)
(* nav_history, and file1.fetch_and_store_all_data, which adds to it. Here   *)
(* nav_history is kept row by row, as the set of its rows                    *)
(* [scheme_code, nav_date, nav]; nav_date is the TEXT stored, a day written  *)
(* in one of two formats.                                                     *)

StoreCodes == {1, NumFunds}
StoreDays == {LatestDay - 1, LatestDay}
StoreNavs == {1000, 1100}

(* date_obj.strftime('%Y-%m-%d') of fetch_data.py, and the provider's own    *)
(* 'dd-mm-YYYY' text that file1.py stores unchanged.                         *)
strftime_ymd(day) == [fmt |-> "%Y-%m-%d", day |-> day]
provider_text(day) == [fmt |-> "%d-%m-%Y", day |-> day]

(* pd.to_datetime(text, format='mixed', dayfirst=True) of calculations.py:   *)
(* each text is parsed on its own, in whichever of the formats it is.        *)
to_datetime_mixed(text) == text.day

(* INSERT OR IGNORE INTO nav_history under PRIMARY KEY (scheme_code,         *)
(* nav_date): a row whose key is present is ignored.                         *)
insert_or_ignore(table, row) ==
    IF \E r \in table : r.scheme_code = row.scheme_code /\ r.nav_date = row.nav_date
    THEN table
    ELSE table \cup {row}

(* The series of one scheme as the loader hands it to the runner: its rows   *)
(* with the parsed dates.                                                     *)
loaded_points(table, code) ==
    {[row |-> r, nav_date |-> to_datetime_mixed(r.nav_date)] :
        r \in {x \in table : x.scheme_code = code}}

InitStore ==
    /\ variant = "calculations"
    /\ fund_metrics_table = NoTable
    /\ prev_table = NoTable
    /\ nav_history = {}
    /\ provider = "full"
    /\ pc = "idle"
    /\ all_funds_df = <<>>
    /\ analysis_df = <<>>
    /\ benchmark_data = EmptyBenchmark
    /\ todo = <<>>
    /\ cur = NoGroup
    /\ fund_metrics = <<>>
    /\ exception = "none"
    /\ fn_in = NoCall
    /\ fn_out = NoResult
    /\ IdleScripts

StoreStep(from, to, table) ==
    /\ pc = from
    /\ pc' = to
    /\ nav_history' = table
    /\ UNCHANGED <<variant, provider, all_funds_df, analysis_df, benchmark_data, todo, cur,
                   fund_metrics, fund_metrics_table, prev_table, exception, fn_in,
                   fn_out, script_vars>>

(* fetch_data.py: DROP TABLE IF EXISTS nav_history, CREATE TABLE.            *)
FetchDataSetup == StoreStep("idle", "fetch_data", {})

(* fetch_data.py: one record of a scheme's history, its date reformatted.    *)
FetchDataInsert ==
    \E code \in StoreCodes, day \in StoreDays, nav \in StoreNavs :
        StoreStep("fetch_data", "fetch_data",
                  insert_or_ignore(nav_history,
                      [scheme_code |-> code, nav_date |-> strftime_ymd(day), nav |-> nav]))

FetchDataDone == StoreStep("fetch_data", "idle", nav_history)

(* file1.py: setup_database (CREATE TABLE IF NOT EXISTS keeps the rows).     *)
File1Setup == StoreStep("idle", "file1", nav_history)

(* file1.py: one record of a scheme's history, its date as received.         *)
File1Insert ==
    \E code \in StoreCodes, day \in StoreDays, nav \in StoreNavs :
        StoreStep("file1", "file1",
                  insert_or_ignore(nav_history,
                      [scheme_code |-> code, nav_date |-> provider_text(day), nav |-> nav]))

File1Done == StoreStep("file1", "idle", nav_history)

NextStore ==
    \/ FetchDataSetup
    \/ FetchDataInsert
    \/ FetchDataDone
    \/ File1Setup
    \/ File1Insert
    \/ File1Done

SpecStore == InitStore /\ [][NextStore]_vars

-----------------------------------------------------------------------------
(* report.py (SpecReport): generate_final_report over mf.db's fund_metrics,  *)
(* book_portfolio into portfolio.db's virtual_portfolio, track_portfolio.    *)

(* The characters of the fund names and of the keywords in use: str values   *)
(* are kept as names and spelled out here for the substring test.            *)
Letters(text) ==
    CASE text = "Alpha Mid Cap Fund" -> <<"A", "l", "p", "h", "a", " ", "M", "i", "d", " ", "C", "a", "p",
            " ", "F", "u", "n", "d">>
      [] text = "Beta SMALL CAP Fund" -> <<"B", "e", "t", "a", " ", "S", "M", "A", "L", "L", " ",
            "C", "A", "P", " ", "F", "u", "n", "d">>
      [] text = "Nifty Midcap 150 Index" -> <<"N", "i", "f", "t", "y", " ", "M", "i", "d", "c",
            "a", "p", " ", "1", "5", "0", " ", "I", "n", "d", "e", "x">>
      [] text = "Gamma Micro Cap Fund" -> <<"G", "a", "m", "m", "a", " ", "M", "i", "c", "r", "o",
            " ", "C", "a", "p", " ", "F", "u", "n", "d">>
      [] text = "Delta Mid Cap Fund" -> <<"D", "e", "l", "t", "a", " ", "M", "i", "d", " ", "C",
            "a", "p", " ", "F", "u", "n", "d">>
      [] text = "Golden Harvest Fund" -> <<"G", "o", "l", "d", "e", "n", " ", "H", "a", "r", "v",
            "e", "s", "t", " ", "F", "u", "n", "d">>
      [] text = "Epsilon Flexi Fund" -> <<"E", "p", "s", "i", "l", "o", "n", " ", "F", "l", "e",
            "x", "i", " ", "F", "u", "n", "d">>
      [] text = "Eta Small Cap Fund" -> <<"E", "t", "a", " ", "S", "m", "a", "l", "l", " ", "C",
            "a", "p", " ", "F", "u", "n", "d">>
      [] text = "Mid Cap" -> <<"M", "i", "d", " ", "C", "a", "p">>
      [] text = "Small Cap" -> <<"S", "m", "a", "l", "l", " ", "C", "a", "p">>
      [] text = "Micro Cap" -> <<"M", "i", "c", "r", "o", " ", "C", "a", "p">>
      [] text = "Midcap" -> <<"M", "i", "d", "c", "a", "p">>
      [] text = "Large Cap" -> <<"L", "a", "r", "g", "e", " ", "C", "a", "p">>
      [] text = "Bluechip" -> <<"B", "l", "u", "e", "c", "h", "i", "p">>
      [] text = "Nifty" -> <<"N", "i", "f", "t", "y">>
      [] text = "Sensex" -> <<"S", "e", "n", "s", "e", "x">>
      [] text = "International" -> <<"I", "n", "t", "e", "r", "n", "a", "t", "i", "o", "n", "a",
            "l">>
      [] text = "Global" -> <<"G", "l", "o", "b", "a", "l">>
      [] text = "Overseas" -> <<"O", "v", "e", "r", "s", "e", "a", "s">>
      [] text = "Debt" -> <<"D", "e", "b", "t">>
      [] text = "Liquid" -> <<"L", "i", "q", "u", "i", "d">>
      [] text = "Gilt" -> <<"G", "i", "l", "t">>
      [] text = "Corporate Bond" -> <<"C", "o", "r", "p", "o", "r", "a", "t", "e", " ", "B", "o",
            "n", "d">>
      [] text = "Credit Risk" -> <<"C", "r", "e", "d", "i", "t", " ", "R", "i", "s", "k">>
      [] text = "Gold" -> <<"G", "o", "l", "d">>

UPPER == <<"A", "B", "C", "D", "E", "F", "G", "H", "I", "J", "K", "L", "M", "N", "O", "P", "Q", "R", "S",
           "T", "U", "V", "W", "X", "Y", "Z">>
LOWER == <<"a", "b", "c", "d", "e", "f", "g", "h", "i", "j", "k", "l", "m", "n", "o", "p", "q", "r", "s",
           "t", "u", "v", "w", "x", "y", "z">>

(* str.lower().                                                               *)
lower(chars) ==
    [i \in 1..Len(chars) |->
        IF \E j \in 1..Len(UPPER) : UPPER[j] = chars[i]
        THEN LOWER[CHOOSE j \in 1..Len(UPPER) : UPPER[j] = chars[i]]
        ELSE chars[i]]

(* k in x for two str: k occurs in x as a run of consecutive characters.     *)
contains(x, k) ==
    \E i \in 0..(Len(x) - Len(k)) : SubSeq(x, i + 1, i + Len(k)) = k

(* any(k.lower() in x.lower() for k in keywords).                            *)
matches_keywords(name, keywords) ==
    \E j \in 1..Len(keywords) :
        contains(lower(Letters(name)), lower(Letters(keywords[j])))

(* allocation_data, in the order of the dict.                                *)
allocation_data ==
    << [category |-> "Mid & Small-cap",
        keywords |-> <<"Mid Cap", "Small Cap", "Micro Cap", "Midcap">>,
        percentage |-> Q(25, 100)],
       [category |-> "Large-cap",
        keywords |-> <<"Large Cap", "Bluechip", "Nifty", "Sensex">>,
        percentage |-> Q(30, 100)],
       [category |-> "International Equity",
        keywords |-> <<"International", "Global", "Overseas">>,
        percentage |-> Q(20, 100)],
       [category |-> "Debt Mutual Funds",
        keywords |-> <<"Debt", "Liquid", "Gilt", "Corporate Bond", "Credit Risk">>,
        percentage |-> Q(10, 100)],
       [category |-> "Gold", keywords |-> <<"Gold">>, percentage |-> Q(10, 100)] >>

(* Series > 0.0 and Series < 25.0: a comparison with NaN is False.           *)
GtZero(x) == IsQ(x) /\ QLt(Zero, x)
LtLimit(x) == IsQ(x) /\ QLt(x, Q(25, 1))

(* The mask of the filter on metrics_df.                                     *)
passes_filter(row) ==
    /\ GtZero(row.sharpe_ratio)
    /\ GtZero(row.sortino_ratio)
    /\ LtLimit(row.max_drawdown)
    /\ LtLimit(row.volatility)

(* sharpe_ratio * 0.4 + sortino_ratio * 0.4 + alpha * 0.2.                   *)
final_score(row) ==
    FAdd(FAdd(FMul(row.sharpe_ratio, Q(4, 10)), FMul(row.sortino_ratio, Q(4, 10))),
         FMul(row.alpha, Q(2, 10)))

(* The rows in their given order.                                            *)
sort_values_kept(rows) == rows

(* Whether score a is sorted before score b: descending, NaN last.           *)
SortsBefore(a, b) == IsQ(a) /\ (IsNaN(b) \/ QLt(b, a))

(* sort_values(by='final_score', ascending=False); rows of equal score keep  *)
(* their order (the sort of a short frame is an insertion sort).             *)
RECURSIVE sort_values(_)
sort_values(rows) ==
    IF Len(rows) <= 1 THEN rows
    ELSE LET x == Head(rows)
             rest == sort_values(Tail(rows))
             ahead == Cardinality({i \in 1..Len(rest) :
                                     SortsBefore(rest[i].final_score, x.final_score)})
         IN  SubSeq(rest, 1, ahead) \o <<x>> \o SubSeq(rest, ahead + 1, Len(rest))

(* DataFrame.head(3).                                                        *)
head3(rows) == SubSeq(rows, 1, IF Len(rows) < 3 THEN Len(rows) ELSE 3)

(* One pass of the loop over allocation_data: the category's section of the  *)
(* report and its entries of recommended_funds.                              *)
category_section(filtered_df, data) ==
    LET Match(row) == matches_keywords(row.name, data.keywords)
        category_df == SelectSeq(filtered_df, Match)
    IN  [category |-> data.category, percentage |-> data.percentage,
         top_3 |-> head3(category_df)]

section_funds(section) ==
    [i \in 1..Len(section.top_3) |->
        [scheme_code |-> section.top_3[i].scheme_code, name |-> section.top_3[i].name,
         category |-> section.category, percentage |-> section.percentage]]

RECURSIVE concat_all(_)
concat_all(lists) == IF Len(lists) = 0 THEN <<>> ELSE Head(lists) \o concat_all(Tail(lists))

(* generate_final_report: the pair it returns. An exception (the table or    *)
(* the column 'alpha' is missing) is caught and gives the error result.      *)
generate_final_report(table) ==
    LET metrics_df == table.rows
        filtered_df == SelectSeq(metrics_df, passes_filter)
        scored == [i \in 1..Len(filtered_df) |->
                     [scheme_code |-> filtered_df[i].scheme_code,
                      name |-> filtered_df[i].name,
                      sharpe_ratio |-> filtered_df[i].sharpe_ratio,
                      sortino_ratio |-> filtered_df[i].sortino_ratio,
                      max_drawdown |-> filtered_df[i].max_drawdown,
                      volatility |-> filtered_df[i].volatility,
                      alpha |-> filtered_df[i].alpha,
                      final_score |-> final_score(filtered_df[i])]]
        sections == [c \in 1..Len(allocation_data) |->
                       category_section(sort_values(scored), allocation_data[c])]
    IN  IF ~table.exists
        THEN [report |-> [kind |-> "error", sections |-> <<>>], funds |-> NoFunds]
        ELSE IF Len(metrics_df) = 0
        THEN [report |-> [kind |-> "no_metrics", sections |-> <<>>], funds |-> NoFunds]
        ELSE IF Len(filtered_df) = 0
        THEN [report |-> [kind |-> "no_pass", sections |-> <<>>], funds |-> NoFunds]
        ELSE IF \E i \in 1..Len(filtered_df) : "alpha" \notin DOMAIN filtered_df[i]
        THEN [report |-> [kind |-> "error", sections |-> <<>>], funds |-> NoFunds]
        ELSE [report |-> [kind |-> "recommendations", sections |-> sections],
              funds |-> FundList(concat_all([c \in 1..Len(sections) |->
                                               section_funds(sections[c])]))]

-----------------------------------------------------------------------------
(* Binary floating point (IEEE 754 binary64, Python's float) for the money   *)
(* arithmetic of book_portfolio: a positive value is kept as its MANT_DIG    *)
(* significand bits, most significant first, and the exponent e of the first *)
(* bit; every operation rounds its exact result to nearest, ties to even.    *)

MANT_DIG == 53

Zeros(k) == [i \in 1..k |-> 0]

RECURSIVE BitLength(_)
BitLength(n) == IF n = 0 THEN 0 ELSE 1 + BitLength(n \div 2)

(* The last width binary digits of n, most significant first.               *)
FixedBits(n, width) == [i \in 1..width |-> (n \div 2 ^ (width - i)) % 2]

(* The binary digits of a positive integer, most significant first.          *)
IntBits(n) == FixedBits(n, BitLength(n))

(* The integer that the digits bits[lo..hi] spell (a limb of few digits).    *)
RECURSIVE BitsValue(_, _, _)
BitsValue(bits, lo, hi) ==
    IF lo > hi THEN 0
    ELSE IF lo = hi THEN bits[lo]
    ELSE LET mid == (lo + hi) \div 2
         IN  BitsValue(bits, lo, mid) * 2 ^ (hi - mid) + BitsValue(bits, mid + 1, hi)

(* The long division and the long product below work on limbs of LIMB_BITS   *)
(* digits at a time.                                                          *)
LIMB_BITS == 8

(* How many digits to add to len digits to fill whole limbs.                 *)
LimbFill(len) == (LIMB_BITS - (len % LIMB_BITS)) % LIMB_BITS

StripZeros(bits) ==
    LET first == CHOOSE i \in 1..Len(bits) : bits[i] = 1 /\ \A j \in 1..(i - 1) : bits[j] = 0
    IN  SubSeq(bits, first, Len(bits))

(* Round the value bits * 2^(e - Len(bits) + 1) (first bit 1; rest tells     *)
(* whether a non-zero part below the last bit was cut off) to MANT_DIG bits. *)
float_round(bits, e, rest) ==
    IF Len(bits) <= MANT_DIG
    THEN [m |-> bits \o Zeros(MANT_DIG - Len(bits)), e |-> e]
    ELSE LET kept == SubSeq(bits, 1, MANT_DIG)
             half == bits[MANT_DIG + 1] = 1
             sticky == rest \/ \E i \in (MANT_DIG + 2)..Len(bits) : bits[i] = 1
             up == half /\ (sticky \/ kept[MANT_DIG] = 1)
         IN  IF ~up THEN [m |-> kept, e |-> e]
             ELSE IF \A i \in 1..MANT_DIG : kept[i] = 1
             THEN [m |-> <<1>> \o Zeros(MANT_DIG - 1), e |-> e + 1]
             ELSE LET z == CHOOSE i \in 1..MANT_DIG :
                              kept[i] = 0 /\ \A j \in (i + 1)..MANT_DIG : kept[j] = 1
                  IN  [m |-> [i \in 1..MANT_DIG |->
                                IF i < z THEN kept[i] ELSE IF i = z THEN 1 ELSE 0],
                       e |-> e]

(* Schoolbook division of a digit string (whole limbs) by a small positive  *)
(* integer: quotient digits q and remainder r.                               *)
RECURSIVE LongDivision(_, _, _, _, _)
LongDivision(bits, v, r, i, q) ==
    IF i > Len(bits) THEN [q |-> q, r |-> r]
    ELSE LET t == r * 2 ^ LIMB_BITS + BitsValue(bits, i, i + LIMB_BITS - 1)
         IN  LongDivision(bits, v, t % v, i + LIMB_BITS, q \o FixedBits(t \div v, LIMB_BITS))

(* (bits * 2^scale) / v, correctly rounded.                                  *)
divide_bits(bits, scale, v) ==
    LET least == MANT_DIG + BitLength(v) + 1
        k == least + LimbFill(Len(bits) + least)
        res == LongDivision(bits \o Zeros(k), v, 0, 1, <<>>)
        q == StripZeros(res.q)
    IN  float_round(q, scale - k + Len(q) - 1, res.r # 0)

(* Schoolbook product of a digit string (whole limbs) and a small positive   *)
(* integer, from the last limb to the first.                                 *)
RECURSIVE LongProduct(_, _, _, _, _)
LongProduct(bits, v, hi, carry, out) ==
    IF hi = 0 THEN IntBits(carry) \o out
    ELSE LET t == BitsValue(bits, hi - LIMB_BITS + 1, hi) * v + carry
         IN  LongProduct(bits, v, hi - LIMB_BITS, t \div 2 ^ LIMB_BITS,
                         FixedBits(t % 2 ^ LIMB_BITS, LIMB_BITS) \o out)

multiply_bits(bits, v) ==
    LET padded == Zeros(LimbFill(Len(bits))) \o bits
    IN  StripZeros(LongProduct(padded, v, Len(padded), 0, <<>>))

(* The float nearest n / d (a literal such as 0.3, an int turned float).     *)
float_of_ratio(n, d) == divide_bits(IntBits(n), 0, d)

(* x / v and x * v for a float x and a float v of integer value.             *)
float_div_int(x, v) == divide_bits(x.m, x.e - (MANT_DIG - 1), v)
float_mul_int(x, v) ==
    LET p == multiply_bits(x.m, v)
    IN  float_round(p, x.e - (MANT_DIG - 1) + Len(p) - 1, FALSE)

(* The exact value of a float whose significand is short enough for Q.       *)
float_to_q(x) ==
    LET last == CHOOSE i \in 1..MANT_DIG : x.m[i] = 1 /\ \A j \in (i + 1)..MANT_DIG : x.m[j] = 0
        k == BitsValue(x.m, 1, last)
        s == x.e - (last - 1)
    IN  IF s >= 0 THEN Q(k * 2 ^ s, 1) ELSE Q(k, 2 ^ (0 - s))
(* A neighbour of a float: the next one up and the next one down.            *)
float_next(x) ==
    IF \A i \in 1..MANT_DIG : x.m[i] = 1
    THEN [m |-> <<1>> \o Zeros(MANT_DIG - 1), e |-> x.e + 1]
    ELSE LET z == CHOOSE i \in 1..MANT_DIG :
                     x.m[i] = 0 /\ \A j \in (i + 1)..MANT_DIG : x.m[j] = 1
         IN  [m |-> [i \in 1..MANT_DIG |-> IF i < z THEN x.m[i] ELSE IF i = z THEN 1 ELSE 0],
              e |-> x.e]

float_prev(x) ==
    IF \A i \in 2..MANT_DIG : x.m[i] = 0
    THEN [m |-> [i \in 1..MANT_DIG |-> 1], e |-> x.e - 1]
    ELSE LET z == CHOOSE i \in 2..MANT_DIG :
                     x.m[i] = 1 /\ \A j \in (i + 1)..MANT_DIG : x.m[j] = 0
         IN  [m |-> [i \in 1..MANT_DIG |-> IF i < z THEN x.m[i] ELSE IF i = z THEN 0 ELSE 1],
              e |-> x.e]

-----------------------------------------------------------------------------
(* report.py: book_portfolio and track_portfolio. In this part nav_history   *)
(* is the set of rows [scheme_code, nav_date, nav] as fetch_data.py stores   *)
(* them (nav_date as '%Y-%m-%d' text, whose order is the order of the days). *)

(* The default of the parameter investment_amount.                           *)
investment_amount == 15000

(* WHERE nav_date = (SELECT MAX(nav_date) FROM nav_history).                 *)
latest_navs(table) ==
    {r \in table : \A o \in table : o.nav_date.day <= r.nav_date.day}

(* The guard that never skips the booking.                                   *)
no_funds_never(funds) == FALSE

(* not recommended_funds: None or an empty list.                             *)
no_funds(funds) == funds.none \/ Len(funds.list) = 0

(* Every fund taken for the only one of its category.                        *)
funds_in_category_one(funds, fund) == 1

(* len([f for f in recommended_funds if f['category'] == fund['category']]). *)
funds_in_category_count(funds, fund) ==
    Cardinality({i \in 1..Len(funds) : funds[i].category = fund.category})

(* latest_navs[latest_navs['scheme_code'] == fund['scheme_code']].           *)
fund_nav_row(latest, fund) == {r \in latest : r.scheme_code = fund.scheme_code}

(* investment_amount * fund['percentage'] / funds_in_category_count.         *)
fund_investment(funds, fund, amount) ==
    float_div_int(float_mul_int(float_of_ratio(fund.percentage.n, fund.percentage.d), amount),
                  funds_in_category_count(funds, fund))

(* Whether the loop appends a tuple for the fund: it has a latest NAV row,   *)
(* fund_investment > 0 and units > 0 (units is 0 unless fund_nav > 0).       *)
is_booked(latest, fund, amount) ==
    /\ fund_nav_row(latest, fund) # {}
    /\ amount > 0
    /\ \A r \in fund_nav_row(latest, fund) : r.nav > 0

(* The tuple appended to portfolio_data.                                     *)
portfolio_tuple(latest, funds, fund, amount) ==
    LET fund_nav == (CHOOSE r \in fund_nav_row(latest, fund) : TRUE).nav
        invested == fund_investment(funds, fund, amount)
    IN  [scheme_code |-> fund.scheme_code, name |-> fund.name, category |-> fund.category,
         investment_amount |-> invested, purchase_nav |-> fund_nav,
         units |-> float_div_int(invested, fund_nav),
         purchase_date |-> (CHOOSE r \in latest : TRUE).nav_date]

(* book_portfolio: virtual_portfolio as the call leaves it.                  *)
book_portfolio(funds, table, portfolio, amount) ==
    LET latest == latest_navs(table)
        list == funds.list
        Booked(fund) == is_booked(latest, fund, amount)
        booked == SelectSeq(list, Booked)
        portfolio_data == [i \in 1..Len(booked) |->
                             portfolio_tuple(latest, list, booked[i], amount)]
    IN  IF no_funds(funds) THEN portfolio
        ELSE IF latest = {} THEN portfolio
        ELSE [exists |-> TRUE, rows |-> portfolio.rows \o portfolio_data]

(* track_portfolio: what it returns. It reads the two databases only; with   *)
(* a portfolio and latest NAVs it reaches html_table.replace('<td>', lambda) *)
(* whose TypeError is caught like a missing table.                           *)
track_portfolio(portfolio, table) ==
    IF ~portfolio.exists THEN "error"
    ELSE IF Len(portfolio.rows) = 0 THEN "no_portfolio"
    ELSE IF latest_navs(table) = {} THEN "no_nav"
    ELSE "error"

(* The funds a runner may have scored: name and the metrics before the       *)
(* runner's rounding (the drawdown as a fraction). Among them funds of one   *)
(* category in excess of three, a fund of two categories, a fund of none, a *)
(* name that holds a keyword inside a word, metrics on the limits of the     *)
(* filter and a NaN.                                                          *)
ReportFunds ==
    << [name |-> "Alpha Mid Cap Fund", sharpe |-> Q(150, 100), sortino |-> Q(2, 1),
        drawdown |-> Q(10, 100), vol |-> Q(12, 1), alpha |-> Q(5, 1)],
       [name |-> "Beta SMALL CAP Fund", sharpe |-> Q(1, 2), sortino |-> Q(1, 2),
        drawdown |-> Q(20, 100), vol |-> Q(20, 1), alpha |-> Q(-2, 1)],
       [name |-> "Nifty Midcap 150 Index", sharpe |-> One, sortino |-> One,
        drawdown |-> Q(15, 100), vol |-> Q(15, 1), alpha |-> Zero],
       [name |-> "Gamma Micro Cap Fund", sharpe |-> Q(2, 1), sortino |-> Q(2, 1),
        drawdown |-> Q(5, 100), vol |-> Q(10, 1), alpha |-> Q(10, 1)],
       [name |-> "Delta Mid Cap Fund", sharpe |-> Q(3, 1), sortino |-> Q(3, 1),
        drawdown |-> Q(25, 100), vol |-> Q(10, 1), alpha |-> Q(20, 1)],
       [name |-> "Golden Harvest Fund", sharpe |-> Q(1, 5), sortino |-> Q(3, 10),
        drawdown |-> Q(12, 100), vol |-> Q(2499, 100), alpha |-> Q(-1, 1)],
       [name |-> "Epsilon Flexi Fund", sharpe |-> One, sortino |-> One,
        drawdown |-> Q(10, 100), vol |-> Q(10, 1), alpha |-> One],
       [name |-> "Eta Small Cap Fund", sharpe |-> NaN, sortino |-> Q(3, 2),
        drawdown |-> Q(1, 100), vol |-> Q(5, 1), alpha |-> Zero] >>

NumReportFunds == Len(ReportFunds)

(* The MetricsRecord runner v writes for fund code.                          *)
ReportRecord(v, code) ==
    LET f == ReportFunds[code]
    IN  MetricsRecord(v, [name |-> f.name, category |-> "Equity"],
                      [code |-> code, vol |-> f.vol, sharpe |-> f.sharpe,
                       sortino |-> f.sortino, drawdown |-> f.drawdown, alpha |-> f.alpha])

(* The codes of set S in increasing order (the order of the groupby loop).   *)
RECURSIVE CodesInOrder(_)
CodesInOrder(S) ==
    IF S = {} THEN <<>>
    ELSE LET least == CHOOSE c \in S : \A o \in S : c <= o
         IN  <<least>> \o CodesInOrder(S \ {least})

(* fund_metrics as runner v leaves it after admitting the funds of S; with   *)
(* no fund admitted to_sql is not called and the table is not there.         *)
MetricsTables(v) ==
    {NoTable} \cup
    {[exists |-> TRUE,
      rows |-> [i \in 1..Cardinality(S) |-> ReportRecord(v, CodesInOrder(S)[i])]] :
        S \in (SUBSET (1..NumReportFunds)) \ {{}}}

(* nav_history: empty, or a latest row for every fund, the NAV 7 or 10 and   *)
(* for two funds 0; in some stores the newest row of fund 1 is a day older.  *)
ReportNav(code) == IF code \in {4, 6} THEN 0 ELSE IF code % 2 = 1 THEN 7 ELSE 10

NavStores ==
    { {},
      {[scheme_code |-> c, nav_date |-> strftime_ymd(LatestDay), nav |-> ReportNav(c)] :
          c \in 1..NumReportFunds},
      {[scheme_code |-> c, nav_date |-> strftime_ymd(LatestDay), nav |-> 10] :
          c \in 1..NumReportFunds},
      {[scheme_code |-> c,
        nav_date |-> strftime_ymd(IF c = 1 THEN LatestDay - 1 ELSE LatestDay),
        nav |-> ReportNav(c)] : c \in 1..NumReportFunds} }

(* virtual_portfolio before the call: not there, or holding the purchase of  *)
(* an earlier day.                                                            *)
EarlierPurchase ==
    [scheme_code |-> 2, name |-> ReportFunds[2].name, category |-> "Mid & Small-cap",
     investment_amount |-> float_of_ratio(1250, 1), purchase_nav |-> 10,
     units |-> float_of_ratio(125, 1), purchase_date |-> strftime_ymd(LatestDay - RecentDays)]

PriorPortfolios == {NoTable, [exists |-> TRUE, rows |-> <<EarlierPurchase>>]}

InitReport ==
    /\ variant \in Variants
    /\ fund_metrics_table \in MetricsTables(variant)
    /\ prev_table = NoTable
    /\ nav_history \in NavStores
    /\ provider = "full"
    /\ pc = "report"
    /\ all_funds_df = <<>>
    /\ analysis_df = <<>>
    /\ benchmark_data = EmptyBenchmark
    /\ todo = <<>>
    /\ cur = NoGroup
    /\ fund_metrics = <<>>
    /\ exception = "none"
    /\ fn_in = NoCall
    /\ fn_out = NoResult
    /\ recommendation_report = NoReport
    /\ recommended_funds = NoFunds
    /\ virtual_portfolio \in PriorPortfolios
    /\ portfolio_tracking_report = "none"
    /\ max_retries = 0
    /\ delay = 0
    /\ attempt = 0
    /\ mf = NULL
    /\ slept = <<>>
    /\ errors = <<>>

(* recommendation_report, recommended_funds = generate_final_report().       *)
GenerateFinalReport ==
    /\ pc = "report"
    /\ LET result == generate_final_report(fund_metrics_table)
       IN  /\ recommendation_report' = result.report
           /\ recommended_funds' = result.funds
    /\ pc' = "book"
    /\ UNCHANGED <<variant, nav_history, provider, all_funds_df, analysis_df, benchmark_data,
                   todo, cur, fund_metrics, fund_metrics_table, prev_table, exception, fn_in,
                   fn_out, virtual_portfolio, portfolio_tracking_report, retry_vars>>

(* book_portfolio(recommended_funds).                                        *)
BookPortfolio ==
    /\ pc = "book"
    /\ virtual_portfolio' = book_portfolio(recommended_funds, nav_history, virtual_portfolio,
                                           investment_amount)
    /\ pc' = "track"
    /\ UNCHANGED <<variant, nav_history, provider, all_funds_df, analysis_df, benchmark_data,
                   todo, cur, fund_metrics, fund_metrics_table, prev_table, exception, fn_in,
                   fn_out, recommendation_report, recommended_funds,
                   portfolio_tracking_report, retry_vars>>

(* portfolio_tracking_report = track_portfolio(), then index.html is written. *)
TrackPortfolio ==
    /\ pc = "track"
    /\ portfolio_tracking_report' = track_portfolio(virtual_portfolio, nav_history)
    /\ pc' = "html"
    /\ UNCHANGED <<variant, nav_history, provider, all_funds_df, analysis_df, benchmark_data,
                   todo, cur, fund_metrics, fund_metrics_table, prev_table, exception, fn_in,
                   fn_out, recommendation_report, recommended_funds, virtual_portfolio,
                   retry_vars>>

NextReport ==
    \/ GenerateFinalReport
    \/ BookPortfolio
    \/ TrackPortfolio

SpecReport == InitReport /\ [][NextReport]_vars

-----------------------------------------------------------------------------
(* fetch_data.py (SpecRetry): initialize_mftool_with_retry. mf is NULL until *)
(* the client is returned; exception is what the function raised.            *)

MAX_RETRIES == 3
RETRY_DELAY_SECONDS == 10

(* The arguments tried: the script's own and the counts and delay around.    *)
RetryCounts == 0..(MAX_RETRIES + 1)
Delays == {0, RETRY_DELAY_SECONDS}

(* What Mftool() does on one attempt: it returns the client or raises.       *)
MftoolOutcomes == {"Mftool", "ConnectTimeout", "Exception"}

(* The test that never takes an attempt for the last.                        *)
is_last_attempt_never(a, retries) == FALSE

(* attempt == max_retries - 1.                                               *)
is_last_attempt(a, retries) == a = retries - 1

InitRetry ==
    /\ variant = "calculations"
    /\ fund_metrics_table = NoTable
    /\ prev_table = NoTable
    /\ nav_history = {}
    /\ provider = "full"
    /\ pc = "try"
    /\ all_funds_df = <<>>
    /\ analysis_df = <<>>
    /\ benchmark_data = EmptyBenchmark
    /\ todo = <<>>
    /\ cur = NoGroup
    /\ fund_metrics = <<>>
    /\ exception = "none"
    /\ fn_in = NoCall
    /\ fn_out = NoResult
    /\ recommendation_report = NoReport
    /\ recommended_funds = NoFunds
    /\ virtual_portfolio = NoTable
    /\ portfolio_tracking_report = "none"
    /\ max_retries \in RetryCounts
    /\ delay \in Delays
    /\ attempt = 0
    /\ mf = NULL
    /\ slept = <<>>
    /\ errors = <<>>

RetryStep ==
    UNCHANGED <<variant, nav_history, provider, all_funds_df, analysis_df, benchmark_data,
                todo, cur, fund_metrics, fund_metrics_table, prev_table, fn_in, fn_out,
                report_vars, max_retries, delay>>

(* One pass of the loop body up to its return, its raise or its sleep.       *)
AttemptMftool ==
    /\ pc = "try"
    /\ attempt < max_retries
    /\ \E outcome \in MftoolOutcomes :
          IF outcome = "Mftool"
          THEN /\ mf' = outcome
               /\ pc' = "returned"
               /\ UNCHANGED <<errors, exception>>
          ELSE /\ errors' = Append(errors, outcome)
               /\ mf' = mf
               /\ IF is_last_attempt(attempt, max_retries)
                  THEN /\ exception' = outcome
                       /\ pc' = "raised"
                  ELSE /\ pc' = "sleep"
                       /\ UNCHANGED exception
    /\ UNCHANGED <<attempt, slept>>
    /\ RetryStep

(* time.sleep(delay), then the next pass.                                    *)
SleepDelay ==
    /\ pc = "sleep"
    /\ slept' = Append(slept, delay)
    /\ attempt' = attempt + 1
    /\ pc' = "try"
    /\ UNCHANGED <<mf, errors, exception>>
    /\ RetryStep

(* The loop has run out of passes: return None.                              *)
ReturnNone ==
    /\ pc = "try"
    /\ attempt >= max_retries
    /\ pc' = "returned"
    /\ UNCHANGED <<attempt, mf, slept, errors, exception>>
    /\ RetryStep

NextRetry ==
    \/ AttemptMftool
    \/ SleepDelay
    \/ ReturnNone

SpecRetry == InitRetry /\ [][NextRetry]_vars

-----------------------------------------------------------------------------
(* Properties of the cohort run (Spec).                                       *)

LoopEnded == pc = "loop" /\ todo = <<>>
RunEnded == pc \in {"done", "aborted"}
Recorded(c) == \E i \in 1..Len(fund_metrics) : fund_metrics[i].scheme_code = c

(* The observations of scheme c in the evaluation window: with a fixed       *)
(* look-back the rows of the last LOOKBACK_DAYS days before the latest date  *)
(* of the frame, otherwise all its rows.                                      *)
ObservationsInWindow(c) ==
    LET p == all_funds_df[c]
        dates == {DateOf(p.cal, p.last, p.n, i) : i \in (p.skip + 1)..p.n}
    IN  IF variant = "calculations"
        THEN Cardinality({d \in dates : d >= MaxDate(all_funds_df) - LOOKBACK_DAYS})
        ELSE Cardinality(dates)

MinimumRequired == IF variant = "calculations" THEN 657 ELSE 365

HasReturns(c) ==
    Len(calculate_daily_returns(Frame(analysis_df[c]), DropAll(variant)).rows) > 0

Eligible(c) == ObservationsInWindow(c) >= MinimumRequired /\ HasReturns(c)

C2_StoreIsThisRunsBatch ==
    (pc = "done" /\ ~FrameEmpty(all_funds_df)) => fund_metrics_table.rows = fund_metrics

(* C3: once the persist step is over, failed or not, fund_metrics holds all  *)
(* rows of the new batch or the complete previous batch.                     *)
C3_PersistAllOrNothing ==
    (RunEnded /\ exception \in {"none", "DatabaseError"})
        => fund_metrics_table.rows \in {fund_metrics, prev_table.rows}

(* C4: a fund whose data makes a step of its processing fail (a nav_date    *)
(* that cannot be parsed) does not make an error leave the cohort run, the   *)
(* benchmark being available: no exception but a failure of the store is     *)
(* raised, and when the loop ends every other fund with enough history has   *)
(* its record.                                                                *)
C4_BadFundAbsorbed ==
    ((\E c \in FundCodes : nav_history[c].bad) /\ provider # "empty")
        => /\ exception \in {"none", "DatabaseError"}
           /\ LoopEnded => \A c \in FundCodes :
                  (~nav_history[c].bad /\ Eligible(c)) => Recorded(c)

AlphaOf(record) ==
    IF "alpha" \in DOMAIN record THEN record.alpha ELSE record.alpha_jensens

(* C5: with an empty benchmark series (and every nav_date parsable) the      *)
(* cohort run still completes (no exception leaves it before the store) and  *)
(* every admitted fund is recorded with alpha = 0.0.                          *)
C5_EmptyBenchmarkCompletes ==
    (provider = "empty" /\ \A c \in FundCodes : ~nav_history[c].bad)
        => /\ exception \in {"none", "DatabaseError"}
           /\ LoopEnded => \A c \in FundCodes :
                  Eligible(c) => \E i \in 1..Len(fund_metrics) :
                      /\ fund_metrics[i].scheme_code = c
                      /\ AlphaOf(fund_metrics[i]) = Zero

(* C14: a NAV row whose date text cannot be parsed is dropped and is not     *)
(* fatal: loading fund data that holds such a row raises nothing and returns *)
(* all the other rows.                                                        *)
C14_UnparsableRowDropped ==
    (pc # "start" /\ \E c \in FundCodes : nav_history[c].bad)
        => /\ exception # "ValueError"
           /\ \A c \in FundCodes :
                 RowCount(all_funds_df[c])
                    = nav_history[c].n - (IF nav_history[c].bad THEN 1 ELSE 0)

(* The number of trading days of the evaluation window of the run.           *)
TradingDaysInWindow ==
    TradingIndex(MaxDate(all_funds_df))
        - TradingIndex(MaxDate(all_funds_df) - LOOKBACK_DAYS - 1)

(* C19: with the fixed look-back the minimum required is at most 90% of the  *)
(* trading days of the window, so that a fund with one NAV observation on    *)
(* every trading day of the window (none on the other days) is admitted and  *)
(* recorded.                                                                  *)
C19_TradingDayFundAdmitted ==
    (LoopEnded /\ variant = "calculations")
        => \A c \in FundCodes :
              (all_funds_df[c].cal = "trading"
                 /\ ObservationsInWindow(c) = TradingDaysInWindow
                 /\ HasReturns(c))
                  => /\ MinRows(variant) * 10 <= TradingDaysInWindow * 9
                     /\ Recorded(c)

(* The state of fund c in the run. A fund is pending until the loop takes    *)
(* it, admitted when it has passed the history gate, normalized when         *)
(* group_sorted is built, scored when its metrics are computed, recorded     *)
(* when its dict is in fund_metrics, and skipped when the loop has left it   *)
(* without a record.                                                          *)
Status(c) ==
    CASE Recorded(c) -> "recorded"
      [] ~Recorded(c) /\ pc = "append" /\ cur.code = c -> "scored"
      [] ~Recorded(c) /\ pc = "score" /\ cur.code = c -> "normalized"
      [] ~Recorded(c) /\ pc = "normalize" /\ cur.code = c -> "admitted"
      [] OTHER -> IF \/ pc \in {"start", "benchmark"}
                     \/ exception \in {"ValueError", "KeyError"}
                     \/ \E i \in 1..Len(todo) : todo[i] = c
                  THEN "pending"
                  ELSE "skipped"

InCohort(c) == RowCount(all_funds_df[c]) > 0

(* The order of the states as claimed, and as the runner has them: the gate  *)
(* comes before the sort, and an empty return frame skips a normalized fund. *)
ClaimedSteps ==
    {<<"pending", "normalized">>, <<"normalized", "admitted">>, <<"normalized", "skipped">>,
     <<"admitted", "scored">>, <<"scored", "recorded">>}
RunnerSteps ==
    {<<"pending", "admitted">>, <<"pending", "skipped">>, <<"admitted", "normalized">>,
     <<"normalized", "scored">>, <<"normalized", "skipped">>, <<"scored", "recorded">>}

Follows(steps) ==
    \A c \in FundCodes :
        InCohort(c) => (Status(c)' = Status(c) \/ <<Status(c), Status(c)'>> \in steps)

(* Every fund is in fund_metrics at most once and waits in the loop at most  *)
(* once, and when the loop has ended it is skipped or recorded.              *)
OnceEach ==
    /\ \A i, j \in 1..Len(fund_metrics) :
          fund_metrics[i].scheme_code = fund_metrics[j].scheme_code => i = j
    /\ \A i, j \in 1..Len(todo) : todo[i] = todo[j] => i = j
    /\ \A i \in 1..Len(todo) : ~Recorded(todo[i]) /\ cur.code # todo[i]
    /\ LoopEnded => \A c \in FundCodes : InCohort(c) => Status(c) \in {"skipped", "recorded"}

-----------------------------------------------------------------------------
(* Properties of the metric functions called directly (SpecFn).              *)

(* The largest fractional decline of a NAV series from a running peak, the   *)
(* first NAV being the first peak.                                            *)
RefMaxDrawdown(navs) ==
    LET later == {p \in (1..Len(navs)) \X (1..Len(navs)) : p[1] <= p[2]}
        fromPeak == {Q(navs[p[1]] - navs[p[2]], navs[p[1]]) : p \in later}
    IN  IF Len(navs) = 0 THEN Zero
        ELSE CHOOSE m \in fromPeak : \A x \in fromPeak : QLe(x, m)

NonDecreasing(navs) == \A i \in 1..(Len(navs) - 1) : navs[i] <= navs[i + 1]

(* C6: max_drawdown of a NAV series of two points or more is the largest    *)
(* fractional decline from a running peak, the first NAV counting as a peak: *)
(* 0.5 for [100, 50] (here [1000, 500]) and 0.0 for every non-decreasing     *)
(* series.                                                                    *)
C6_MaxDrawdownFromFirstPeak ==
    (fn_out.op = "max_drawdown" /\ Len(fn_in.nav) >= 2)
        => /\ fn_out.val = RefMaxDrawdown(fn_in.nav)
           /\ fn_in.nav = <<1000, 500>> => fn_out.val = Q(1, 2)
           /\ NonDecreasing(fn_in.nav) => fn_out.val = Zero

(* C7: for a NAV series of fewer than two points daily_returns is empty and  *)
(* volatility, Sharpe, Sortino and max_drawdown are exactly 0.0.             *)
C7_ShortSeriesAllZero ==
    (fn_in.kind = "nav" /\ Len(fn_in.nav) < 2 /\ fn_out.op # "none")
        => IF fn_out.op = "daily_returns" THEN fn_out.val = <<>> ELSE fn_out.val = Zero

(* C8: volatility, Sharpe and Sortino return a defined number for every     *)
(* return series, and 0.0 for a return series of a single element.           *)
C8_DefinedNumbers ==
    fn_out.op \in {"volatility", "sharpe_ratio", "sortino_ratio"}
        => /\ ~IsNaN(fn_out.val)
           /\ Len(ReturnsOf(fn_in.nav)) = 1 => fn_out.val = Zero

(* The dates on which a series has a daily return: every date but its first. *)
RefReturnDates(rows) == {rows[i].nav_date : i \in 2..Len(rows)}

(* The number of daily-return pairs of the call's fund and benchmark on      *)
(* exactly matching dates.                                                    *)
ExactPairs ==
    Cardinality(RefReturnDates(Rows(fn_in.fund))
                  \cap RefReturnDates(BenchmarkRows(fn_in.benchmark)))

(* C9: under the regression policy the returns are joined on exactly         *)
(* matching dates only (the regression runs on the ExactPairs pairs), and    *)
(* with fewer than 30 pairs alpha is 0.0.                                     *)
C9_RegressionNeedsThirtyPairs ==
    fn_out.op = "alpha_jensens"
        => /\ ExactPairs < 30 => fn_out.val = Zero
           /\ fn_out.val.k = "sym" => fn_out.val.t = <<"jensen", ExactPairs>>

(* Fund and benchmark of 30 rows or more each, with 1 to 29 returns on       *)
(* common dates: alpha is 0.0.                                                *)
C9_Witness ==
    /\ fn_out.op = "alpha_jensens"
    /\ fn_in.fund.n >= 30
    /\ fn_in.benchmark.n >= 30
    /\ ExactPairs > 0
    /\ ExactPairs < 30
    /\ fn_out.val = Zero

(* The common window of the forward-fill policy: the fund rows dated on or   *)
(* after the first benchmark row.                                             *)
RefCommonWindow(fund_rows, benchmark_rows) ==
    LET In(row) == row.nav_date >= benchmark_rows[1].nav_date
    IN  IF Len(benchmark_rows) = 0 THEN <<>> ELSE SelectSeq(fund_rows, In)

(* The close in force on day d: that of the last benchmark row dated on or   *)
(* before d.                                                                  *)
RefCloseAt(benchmark_rows, d) ==
    benchmark_rows[Cardinality({i \in 1..Len(benchmark_rows) :
                                   benchmark_rows[i].nav_date <= d})].Close

(* C10: under the forward-fill policy alpha is 0.0 when the common window    *)
(* has fewer than 2 points or spans fewer than 365 days; otherwise it is     *)
(* (fund CAGR - benchmark CAGR) * 100 from the first and last values of the  *)
(* window, over days / 365 years.                                             *)
C10_ForwardFillAlpha ==
    fn_out.op = "alpha"
        => LET window == RefCommonWindow(Rows(fn_in.fund), BenchmarkRows(fn_in.benchmark))
               first == window[1]
               last == window[Len(window)]
               years == Q(last.nav_date - first.nav_date, 365)
           IN  IF Len(window) < 2 THEN fn_out.val = Zero
               ELSE IF last.nav_date - first.nav_date < 365 THEN fn_out.val = Zero
               ELSE fn_out.val = cagr_difference(
                        calculate_cagr(first.nav, last.nav, years),
                        calculate_cagr(RefCloseAt(BenchmarkRows(fn_in.benchmark), first.nav_date),
                                       RefCloseAt(BenchmarkRows(fn_in.benchmark), last.nav_date),
                                       years))

(* A window of a year or more: alpha is the CAGR differential, not 0.0.      *)
C10_Witness ==
    /\ fn_out.op = "alpha"
    /\ LET window == RefCommonWindow(Rows(fn_in.fund), BenchmarkRows(fn_in.benchmark))
       IN  /\ Len(window) >= 2
           /\ window[Len(window)].nav_date - window[1].nav_date >= 365
    /\ fn_out.val # Zero

(* The raw percent changes of a NAV series, one for every row but the first. *)
RefRawReturns(navs) ==
    [i \in 1..(Len(navs) - 1) |-> Q(navs[i + 1] - navs[i], navs[i])]

(* C11: every value of the return series of daily_returns lies in            *)
(* [-0.5, +0.5]: a raw percent change above 0.5 has become 0.5, one below    *)
(* -0.5 has become -0.5, and any other is unchanged.                         *)
C11_ReturnsClipped ==
    fn_out.op = "daily_returns"
        => \A i \in 1..Len(fn_out.val) :
              LET raw == RefRawReturns(fn_in.nav)[i]
                  r == fn_out.val[i]
              IN  /\ QLe(Q(-1, 2), r) /\ QLe(r, Q(1, 2))
                  /\ QLt(Q(1, 2), raw) => r = Q(1, 2)
                  /\ QLt(raw, Q(-1, 2)) => r = Q(-1, 2)
                  /\ (QLe(Q(-1, 2), raw) /\ QLe(raw, Q(1, 2))) => r = raw

(* A series with a rise of more than 50% followed by a fall of more than     *)
(* 50%: the returns are 0.5 and -0.5.                                        *)
C11_Witness ==
    /\ fn_out.op = "daily_returns"
    /\ fn_in.nav = <<500, 1331, 500>>
    /\ fn_out.val = <<Q(1, 2), Q(-1, 2)>>

(* C12: for a frame of n >= 1 rows with non-null NAVs daily_returns yields   *)
(* exactly n - 1 rows, whatever the descriptive columns hold (a null scheme  *)
(* category removes no row).                                                  *)
C12_ReturnsOneShorter ==
    (fn_out.op \in {"daily_returns_dropna", "daily_returns_subset"} /\ Len(fn_in.nav) >= 1)
        => Len(fn_out.val) = Len(fn_in.nav) - 1

-----------------------------------------------------------------------------
(* Properties of the stored NAV history (SpecStore).                         *)

(* C13: after any sequence of NAV insertions a scheme has at most one NAV    *)
(* point per date, so that the series handed to the return calculator has    *)
(* strictly increasing dates.                                                 *)
C13_OnePointPerDate ==
    \A code \in StoreCodes :
        \A p, q \in loaded_points(nav_history, code) : p.nav_date = q.nav_date => p = q

-----------------------------------------------------------------------------
(* Further properties of the metric functions called directly (SpecFn).      *)

(* C15: cagr(start, end, years) is 0.0 whenever start <= 0 or end <= 0 or    *)
(* years <= 0, and raises for no numeric input.                              *)
C15_CagrGuardedNeverRaises ==
    fn_out.op = "cagr"
        => /\ fn_out.val.k # "raise"
           /\ (fn_in.args.start_value <= 0 \/ fn_in.args.end_value <= 0
                 \/ fn_in.args.years.n <= 0) => fn_out.val = Zero

(* C16: cagr(x, x, years) = 0.0 for every x > 0 and every years > 0.         *)
C16_CagrNoGrowthIsZero ==
    (fn_out.op = "cagr" /\ fn_in.args.start_value = fn_in.args.end_value
       /\ fn_in.args.start_value > 0 /\ fn_in.args.years.n > 0)
        => fn_out.val = Zero

(* cagr(1000, 1000, 1/1024) has returned 0.0.                                *)
C16_Witness ==
    /\ fn_out.op = "cagr"
    /\ fn_in.args = [start_value |-> 1000, end_value |-> 1000, years |-> Q(1, 1024)]
    /\ fn_out.val = Zero

(* C17: for a constant NAV series of two points or more volatility, Sharpe,  *)
(* Sortino and max_drawdown are all 0.0.                                     *)
C17_ConstantSeriesAllZero ==
    (fn_in.kind = "nav" /\ Len(fn_in.nav) >= 2 /\ AllEqual(fn_in.nav)
       /\ fn_out.op \in {"volatility", "sharpe_ratio", "sortino_ratio", "max_drawdown"})
        => fn_out.val = Zero

(* C18: for a NAV series of positive values max_drawdown lies in [0, 1].     *)
C18_MaxDrawdownInUnitInterval ==
    (fn_out.op = "max_drawdown" /\ \A i \in 1..Len(fn_in.nav) : fn_in.nav[i] > 0)
        => /\ IsQ(fn_out.val)
           /\ QLe(Zero, fn_out.val)
           /\ QLe(fn_out.val, One)

(* C21: forward-fill alignment gives, for each fund date on or after the     *)
(* first benchmark date and for no other, the close of the latest benchmark  *)
(* date on or before it; the common window so starts at the first fund date  *)
(* on or after the first benchmark date and ends at the last fund date.      *)
C21_ForwardFillAlignment ==
    fn_out.op = "aligned_benchmark"
        => LET b == BenchmarkRows(fn_in.benchmark)
               window == RefCommonWindow(Rows(fn_in.fund), b)
           IN  /\ Len(fn_out.val) = Len(window)
               /\ \A i \in 1..Len(window) :
                     /\ fn_out.val[i].nav_date = window[i].nav_date
                     /\ fn_out.val[i].Close = RefCloseAt(b, window[i].nav_date)

(* A fund that starts before the benchmark and has dates the benchmark has   *)
(* not: the leading fund dates are excluded and a close is carried forward.  *)
C21_Witness ==
    /\ fn_out.op = "aligned_benchmark"
    /\ Len(fn_out.val) > 0
    /\ Len(fn_out.val) < Len(Rows(fn_in.fund))
    /\ fn_out.val[Len(fn_out.val)].nav_date = LastDate(fn_in.fund)
    /\ \E i \in 1..Len(fn_out.val) :
          fn_out.val[i].nav_date \notin date_index(BenchmarkRows(fn_in.benchmark))

-----------------------------------------------------------------------------
(* Properties of report.py (SpecReport).                                      *)

Reported == pc # "report"

(* C22: every record of the result set carries 'alpha' with the four risk    *)
(* metrics, and report generation over a result set with at least one fund   *)
(* passing the filters returns recommendations, not an error result.         *)
C22_ReportReadsRunnerRecords ==
    (/\ Reported
     /\ \E i \in 1..Len(fund_metrics_table.rows) :
           passes_filter(fund_metrics_table.rows[i]))
        => /\ \A i \in 1..Len(fund_metrics_table.rows) :
                 {"alpha", "sharpe_ratio", "sortino_ratio", "max_drawdown", "volatility"}
                     \subseteq DOMAIN fund_metrics_table.rows[i]
           /\ recommendation_report.kind = "recommendations"
           /\ ~recommended_funds.none

(* The score the claim names, in thousandths: 0.4 sharpe + 0.4 sortino +     *)
(* 0.2 alpha over metrics that are hundredths.                               *)
RefHundredths(x) == (x.n * 100) \div x.d
RefScore(row) ==
    4 * RefHundredths(row.sharpe_ratio) + 4 * RefHundredths(row.sortino_ratio)
        + 2 * RefHundredths(row.alpha)

(* The stored rows a category may list: they pass the four limits and their  *)
(* name holds one of the category's keywords.                                *)
RefPasses(row) ==
    /\ IsQ(row.sharpe_ratio) /\ row.sharpe_ratio.n > 0
    /\ IsQ(row.sortino_ratio) /\ row.sortino_ratio.n > 0
    /\ IsQ(row.max_drawdown) /\ row.max_drawdown.n < 25 * row.max_drawdown.d
    /\ IsQ(row.volatility) /\ row.volatility.n < 25 * row.volatility.d

RefCandidates(data) ==
    {i \in 1..Len(fund_metrics_table.rows) :
        /\ RefPasses(fund_metrics_table.rows[i])
        /\ matches_keywords(fund_metrics_table.rows[i].name, data.keywords)}

(* C23: each category of the recommendations lists at most 3 funds; every    *)
(* listed fund is a stored fund that passes the four limits and matches a    *)
(* keyword of the category; the list is in non-increasing order of the       *)
(* score; no candidate left out has a higher score than a listed one; and    *)
(* recommended_funds holds exactly the listed funds.                         *)
C23_TopThreePerCategory ==
    recommendation_report.kind = "recommendations"
        => /\ Len(recommendation_report.sections) = Len(allocation_data)
           /\ \A c \in 1..Len(allocation_data) :
                 LET listed == recommendation_report.sections[c].top_3
                     rows == fund_metrics_table.rows
                     cand == RefCandidates(allocation_data[c])
                     RowOf(l) == CHOOSE i \in cand : rows[i].scheme_code = l.scheme_code
                 IN  /\ Len(listed) <= 3
                     /\ \A j \in 1..Len(listed) :
                           \E i \in cand : rows[i].scheme_code = listed[j].scheme_code
                     /\ \A j, k \in 1..Len(listed) :
                           j < k => /\ listed[j].scheme_code # listed[k].scheme_code
                                    /\ RefScore(rows[RowOf(listed[j])])
                                          >= RefScore(rows[RowOf(listed[k])])
                     /\ \A i \in cand :
                           (\A j \in 1..Len(listed) :
                               listed[j].scheme_code # rows[i].scheme_code)
                             => /\ Len(listed) = 3
                                /\ \A j \in 1..Len(listed) :
                                      RefScore(rows[i]) <= RefScore(rows[RowOf(listed[j])])
                     /\ \A j \in 1..Len(listed) :
                           \E r \in 1..Len(recommended_funds.list) :
                               /\ recommended_funds.list[r].scheme_code = listed[j].scheme_code
                               /\ recommended_funds.list[r].category = allocation_data[c].category
           /\ \A r \in 1..Len(recommended_funds.list) :
                 \E c \in 1..Len(allocation_data) :
                     /\ recommended_funds.list[r].category = allocation_data[c].category
                     /\ \E j \in 1..Len(recommendation_report.sections[c].top_3) :
                           recommendation_report.sections[c].top_3[j].scheme_code
                               = recommended_funds.list[r].scheme_code

(* A category with more than three candidates, one of them left out, while   *)
(* a stored fund of a higher score than every listed one fails a limit.      *)
C23_Witness ==
    /\ recommendation_report.kind = "recommendations"
    /\ \E c \in 1..Len(allocation_data) :
          /\ Len(recommendation_report.sections[c].top_3) = 3
          /\ Cardinality(RefCandidates(allocation_data[c])) > 3
          /\ \E i \in 1..Len(fund_metrics_table.rows) :
                /\ ~RefPasses(fund_metrics_table.rows[i])
                /\ matches_keywords(fund_metrics_table.rows[i].name,
                                    allocation_data[c].keywords)
                /\ IsQ(fund_metrics_table.rows[i].sharpe_ratio)
                /\ \A j \in 1..3 :
                      RefScore(fund_metrics_table.rows[i]) >
                          4 * RefHundredths(recommendation_report.sections[c].top_3[j].sharpe_ratio)
                          + 4 * RefHundredths(recommendation_report.sections[c].top_3[j].sortino_ratio)
                          + 2 * RefHundredths(recommendation_report.sections[c].top_3[j].alpha)

Booked == pc \in {"track", "html"}

(* The rows the call of book_portfolio inserted: those of this day.          *)
IsInserted(row) == row.purchase_date # EarlierPurchase.purchase_date
Inserted == SelectSeq(virtual_portfolio.rows, IsInserted)

RECURSIVE InvestedSum(_)
InvestedSum(rows) ==
    IF Len(rows) = 0 THEN Zero
    ELSE QAdd(float_to_q(Head(rows).investment_amount), InvestedSum(Tail(rows)))

(* The inserted rows keep to the budget: in total at most investment_amount, *)
(* per category at most investment_amount times the category's percentage,  *)
(* and each with a positive amount and positive units.                       *)
WithinBudget ==
    /\ QLe(InvestedSum(Inserted), Q(investment_amount, 1))
    /\ \A c \in 1..Len(allocation_data) :
          LET OfCategory(row) == row.category = allocation_data[c].category
          IN  QLe(InvestedSum(SelectSeq(Inserted, OfCategory)),
                  QMul(Q(investment_amount, 1), allocation_data[c].percentage))
    /\ \A i \in 1..Len(Inserted) :
          /\ QLt(Zero, float_to_q(Inserted[i].investment_amount))
          /\ Inserted[i].units.m[1] = 1

NoRecommendations ==
    \/ recommendation_report.kind \in {"no_metrics", "no_pass", "error"}
    \/ recommendation_report.kind = "recommendations" /\ Len(recommended_funds.list) = 0

(* C25: once recommendation generation has yielded no funds, no step of      *)
(* generate_report_and_html changes virtual_portfolio: no row is inserted    *)
(* and the table is not created.                                             *)
C25_NoFundsTableUntouched ==
    [][NoRecommendations' => virtual_portfolio' = virtual_portfolio]_vars

(* The script has ended without recommendations (no fund passed, or none    *)
(* was of any category), with latest NAVs in nav_history and still no        *)
(* virtual_portfolio table.                                                   *)
C25_Witness ==
    /\ pc = "html"
    /\ NoRecommendations
    /\ recommendation_report.kind \in {"no_pass", "recommendations"}
    /\ latest_navs(nav_history) # {}
    /\ ~virtual_portfolio.exists

-----------------------------------------------------------------------------
(* Properties of the retry loop (SpecRetry).                                  *)

AttemptsMade == Len(errors) + (IF mf = NULL THEN 0 ELSE 1)

RetryState ==
    /\ AttemptsMade <= (IF max_retries > 0 THEN max_retries ELSE 0)
    /\ mf # NULL => pc = "returned" /\ exception = "none"
    /\ \A i \in 1..Len(slept) : slept[i] = delay
    /\ Len(slept) = (IF pc \in {"sleep", "raised"} THEN Len(errors) - 1 ELSE Len(errors))
    /\ pc = "raised" <=> (max_retries > 0 /\ Len(errors) = max_retries)
    /\ pc = "raised" => /\ exception = errors[Len(errors)]
                        /\ mf = NULL
    /\ pc # "raised" => exception = "none"

RetryMove ==
    /\ pc \in {"returned", "raised"}
          => UNCHANGED <<pc, mf, errors, slept, exception>>
    /\ Len(errors') > Len(errors)
          => /\ mf = NULL
             /\ Len(slept) = Len(errors)

(* C26: the retry loop makes at most max_retries attempts; the client is     *)
(* returned at the first success and nothing is attempted after it; delay    *)
(* seconds are slept after every failed attempt but the last; and after      *)
(* max_retries failures in a row the exception of the last attempt is raised *)
(* and nothing is returned.                                                  *)
C26_RetryLoop == []RetryState /\ [][RetryMove]_vars

(* The script's three attempts have all failed, the last one not as the      *)
(* first, with two sleeps of ten seconds in between.                         *)
C26_Witness ==
    /\ pc = "raised"
    /\ max_retries = MAX_RETRIES
    /\ delay = RETRY_DELAY_SECONDS
    /\ Len(errors) = MAX_RETRIES
    /\ slept = <<RETRY_DELAY_SECONDS, RETRY_DELAY_SECONDS>>
    /\ errors[1] # errors[MAX_RETRIES]
    /\ exception = "Exception"

=============================================================================
